---- MODULE Spec2Model ----
(***************************************************************************)
(* Report generation of the evaluation-report generator: the usage quota  *)
(* (checkDailyLimit / incrementDailyUsage), the prompt compiler            *)
(* (generatePrompt), the Evaluator component (selection state and          *)
(* handleGenerate) and the profile persistence (updateUserProfile).        *)
(*                                                                         *)
(* Strings built by concatenation are modelled as sequences of their       *)
(* pieces (literal pieces and interpolated values), '' as << >>.           *)
(* Calendar days (new Date().toISOString().split('T')[0]) are modelled as  *)
(* day numbers.                                                            *)
(***************************************************************************)
EXTENDS Integers, Sequences, FiniteSets, Bags, TLC

\* ---------------------------------------------------------------- bounds
MaxDay == 2             \* the clock runs over days 1..MaxDay
MaxCount == 5           \* largest dailyUsage.count drawn for an input profile
MaxInvocations == 3     \* handleGenerate invocations in one behaviour (Spec)
MaxSeqInvocations == 7  \* handleGenerate invocations in one behaviour (SpecSeq)
MaxConcurrent == 1      \* handleGenerate invocations outstanding together
MaxBlocks == 3          \* length of the block list given to generatePrompt
MaxDataOps == 2         \* dataActions calls made
MaxCreates == 1         \* rows inserted into the rubric tables
MaxRefused == 1         \* rubric calls the backend answers with an error
MaxProfileOps == 1      \* updateUserProfile calls of the settings screen in progress
MaxTabCalls == 1         \* calls made before which a BlocksTab handler may start (SpecBlocksTab)
MaxRaceCalls == 1        \* dataActions calls made in the settings before the form is used (SpecRace)
MaxOverlap == 2          \* handleGenerate invocations made while another is outstanding (SpecOverlap)
MaxAuthEvents == 3       \* auth-state change notifications delivered to the listener (SpecAuth)

\* ------------------------------------------------------ program constants
DailyLimit == 5

Null == "null"            \* gradientId: null
Undefined == "undefined"  \* geminiApiKey / env key: undefined
NoId == ""                \* selectedStudentId / selectedSubjectId / trimester: ''

Days == 1..MaxDay

Range(s) == {s[i] : i \in 1..Len(s)}

\* ================================================================ quota
\* new Date().toISOString().split('T')[0]; the clock value is the UTC day
Today(now) == now

checkDailyLimit_IgnoresDate(user, now) ==
  IF user.isPremium THEN TRUE
  ELSE user.dailyUsage.count < DailyLimit

checkDailyLimit_OffByOne(user, now) ==
  IF user.isPremium THEN TRUE
  ELSE IF user.dailyUsage.date # Today(now) THEN TRUE
  ELSE user.dailyUsage.count <= DailyLimit

checkDailyLimit(user, now) ==
  IF user.isPremium THEN TRUE
  ELSE IF user.dailyUsage.date # Today(now) THEN TRUE
  ELSE user.dailyUsage.count < DailyLimit

incrementDailyUsage_Accumulate(user, now) ==
  IF user.isPremium THEN user
  ELSE [user EXCEPT !.dailyUsage =
          [date |-> Today(now), count |-> user.dailyUsage.count + 1]]

\* the value returned
incrementDailyUsage(user, now) ==
  IF user.isPremium THEN user
  ELSE LET newUsage == IF user.dailyUsage.date # Today(now)
                       THEN [date |-> Today(now), count |-> 1]
                       ELSE [date |-> user.dailyUsage.date,
                             count |-> user.dailyUsage.count + 1]
       IN [user EXCEPT !.dailyUsage = newUsage]

\* the object passed in, as it is after the call: newUsage is a copy
\* ({ ...user.dailyUsage }) and updatedUser is a copy ({ ...user, ... })
incrementDailyUsageInput(user, now) == user

\* =============================================================== prompt
\* arr.find(x => x.id === id): index of the first match, 0 when none
FindIndex(arr, id) ==
  IF \E i \in 1..Len(arr) : arr[i].id = id
  THEN CHOOSE i \in 1..Len(arr) :
         arr[i].id = id /\ \A j \in 1..(i-1) : arr[j].id # id
  ELSE 0

RECURSIVE Join(_, _)
\* Array.prototype.join(sep)
Join(texts, sep) ==
  IF Len(texts) = 0 THEN << >>
  ELSE IF Len(texts) = 1 THEN <<texts[1]>>
  ELSE <<texts[1], sep>> \o Join(Tail(texts), sep)

RECURSIVE SelectedCommentsInBankOrder(_, _)
SelectedCommentsInBankOrder(commentIds, comments) ==
  IF comments = << >> THEN << >>
  ELSE (IF Head(comments).id \in Range(commentIds)
        THEN <<Head(comments).text>> ELSE << >>)
       \o SelectedCommentsInBankOrder(commentIds, Tail(comments))

RECURSIVE SelectedComments(_, _)
\* ev.commentIds.map(find).filter(found).map(text)
SelectedComments(commentIds, comments) ==
  IF commentIds = << >> THEN << >>
  ELSE LET k == FindIndex(comments, Head(commentIds))
       IN (IF k = 0 THEN << >> ELSE <<comments[k].text>>)
          \o SelectedComments(Tail(commentIds), comments)

GradText_RawId(gradientId, gradients) ==
  LET k == FindIndex(gradients, gradientId)
  IN IF k = 0 THEN gradientId ELSE gradients[k].text

GradText(gradientId, gradients) ==
  LET k == FindIndex(gradients, gradientId)
  IN IF k = 0 THEN "Sense avaluacio" ELSE gradients[k].text

IsUnevaluated_NoGradientTest(block, evaluations) ==
  block.id \notin DOMAIN evaluations

\* !ev || !ev.gradientId
IsUnevaluated(block, evaluations) ==
  \/ block.id \notin DOMAIN evaluations
  \/ evaluations[block.id].gradientId \in {Null, ""}

BlockParagraph(block, ev, gradients, comments) ==
  <<"- Bloc: ", block.name, "\n", "  Gradient: ",
    GradText(ev.gradientId, gradients), "\n", "  Comentaris: ">>
  \o Join(SelectedComments(ev.commentIds, comments), "; ")
  \o <<"\n\n">>

RECURSIVE BlockParagraphs(_, _, _, _)
\* blocks.forEach(...)
BlockParagraphs(blocks, gradients, comments, evaluations) ==
  IF blocks = << >> THEN << >>
  ELSE (IF IsUnevaluated(Head(blocks), evaluations) THEN << >>
        ELSE BlockParagraph(Head(blocks), evaluations[Head(blocks).id],
                            gradients, comments))
       \o BlockParagraphs(Tail(blocks), gradients, comments, evaluations)

PromptOpening_NoSubject(student, subject, trim, teacherGender) ==
  <<"Ets un">> \o (IF teacherGender = "mestre" THEN << >> ELSE <<"a">>)
  \o <<" ", teacherGender, " de primaria. Redacta un informe per a l'alumne ",
       student.name, ", que es ", student.gender, ", de ", student.course,
       " de Primaria.\n", "Trimestre: ", trim, "\n\nBlocs avaluats:\n\n">>

PromptOpening(student, subject, trim, teacherGender) ==
  <<"Ets un">> \o (IF teacherGender = "mestre" THEN << >> ELSE <<"a">>)
  \o <<" ", teacherGender,
       " de primaria que esta avaluant als seus alumnes. Redacta en catala un informe d'avaluacio per a l'alumne ",
       student.name, ", que es ", student.gender, ", de ", student.course,
       " de Primaria.\n", "Trimestre: ", trim, "\nArea: ", subject.name,
       "\n\nBlocs avaluats:\n\n">>

PromptConditions(student) ==
  <<"Condicions:\n", "- L'informe no pot superar les 300 paraules.\n",
    "- Fes un sol redactat: sense fer subapartats.\n",
    "- Fes que les frases tinguin coherencia de genere ( ", student.gender,
    " ) i persona.\n",
    "- Ha de ser un text coherent, amb to pedagogic i positiu.\n",
    "- Fes servir un llenguatge huma.\n",
    "- Ha d'estar integrament escrit en catala.\n">>

generatePrompt(student, subject, trim, blocks, gradients, comments, evaluations, teacherGender) ==
  PromptOpening(student, subject, trim, teacherGender)
  \o BlockParagraphs(blocks, gradients, comments, evaluations)
  \o PromptConditions(student)


\* ================================================================= data
\* The rubric data of the signed-in account (AppData).
AppData0 ==
  [students  |-> << [id |-> "st1", name |-> "Anna", gender |-> "nena", course |-> "3r"],
                    [id |-> "st2", name |-> "Pau",  gender |-> "nen",  course |-> "3r"] >>,
   subjects  |-> << [id |-> "su1", name |-> "Matematiques"],
                    [id |-> "su2", name |-> "Catala"] >>,
   blocks    |-> << [id |-> "b1", subject_id |-> "su1", name |-> "Numeracio", trimesters |-> {"1", "2"}],
                    [id |-> "b2", subject_id |-> "su1", name |-> "Geometria", trimesters |-> {"2"}],
                    [id |-> "b3", subject_id |-> "su2", name |-> "Lectura",   trimesters |-> {"1"}] >>,
   gradients |-> << [id |-> "g1", block_id |-> "b1", tag |-> "A", text |-> "Excellent mastery"],
                    [id |-> "g2", block_id |-> "b1", tag |-> "B", text |-> "Good mastery"],
                    [id |-> "g3", block_id |-> "b2", tag |-> "A", text |-> "Knows the shapes"],
                    [id |-> "g4", block_id |-> "b3", tag |-> "A", text |-> "Reads fluently"] >>,
   comments  |-> << [id |-> "c1", block_id |-> "b1", tag |-> "carries", text |-> "Needs practice with carries"],
                    [id |-> "c2", block_id |-> "b1", tag |-> "mental",  text |-> "Strong mental math"],
                    [id |-> "c3", block_id |-> "b1", tag |-> "tables",  text |-> "Knows the tables"],
                    [id |-> "c4", block_id |-> "b1", tag |-> "effort",  text |-> "Works hard"],
                    [id |-> "c5", block_id |-> "b2", tag |-> "ruler",   text |-> "Uses the ruler well"] >>]

Trimesters == {"1", "2", "3"}

\* ============================================================ variables
VARIABLES
  data,               \* AppContent: data
  today,              \* the clock, as the current UTC day
  envApiKey,          \* import.meta.env.VITE_GEMINI_API_KEY
  profile,            \* SessionContextProvider: profile
  dbProfile,          \* the signed-in account's row of the backend table 'profiles'
  trimester,          \* Evaluator: trimester
  selectedStudentId,  \* Evaluator: selectedStudentId
  selectedSubjectId,  \* Evaluator: selectedSubjectId
  evaluations,        \* Evaluator: evaluations
  generatedPrompt,    \* Evaluator: generatedPrompt
  geminiReport,       \* Evaluator: geminiReport
  loading,            \* Evaluator: loading
  showLimitModal,     \* Evaluator: showLimitModal
  reqs,               \* the handleGenerate invocations: position, closure, calls made
  invocations,        \* history: number of handleGenerate invocations so far
  admittedToday,      \* history: invocations admitted on the current day
  persistFailures,    \* history: profile updates the backend refused
  lastOp,             \* history: the last selection operation of the Evaluator
  fnArgs,             \* arguments of the function under test (SpecQuota, SpecPrompt)
  fnResult,           \* its result
  currentView,        \* AppContent: currentView
  db,                 \* the signed-in account's rows of the backend's rubric tables
  dataOps,            \* dataActions: the calls made, and the calls in progress with position, arguments, closure
  profileOps,         \* the onUpdateUser calls of ProfileTab: position, fields sent, row update
  blocksTab,          \* BlocksTab: selectedSubjectId, newBlockName, newBlockTrims, editingId, editForm
  account             \* SessionContextProvider: user, the profile fetches in progress; AppContent: lastLoadedUserId, the data fetches in progress

setVars   == <<currentView, db, dataOps, profileOps, blocksTab, account>>
appVars   == <<data, envApiKey, setVars>>
sessVars  == <<profile, dbProfile>>
navVars   == <<trimester, selectedStudentId, selectedSubjectId>>
outVars   == <<generatedPrompt, geminiReport, loading, showLimitModal>>
histVars  == <<invocations, admittedToday, persistFailures>>
fnVars    == <<fnArgs, fnResult>>
vars == <<data, today, envApiKey, profile, dbProfile, trimester, selectedStudentId,
          selectedSubjectId, evaluations, generatedPrompt, geminiReport, loading,
          showLimitModal, reqs, invocations, admittedToday, persistFailures,
          lastOp, fnArgs, fnResult, setVars>>

\* ============================================================ Evaluator
\* data.students.find(s => s.id === selectedStudentId); 0 when undefined
selectedStudent == FindIndex(data.students, selectedStudentId)
selectedSubject == FindIndex(data.subjects, selectedSubjectId)

activeBlocks ==
  SelectSeq(data.blocks,
            LAMBDA b : b.subject_id = selectedSubjectId
                       /\ (trimester = NoId \/ trimester \in b.trimesters))

\* ============================================================== session
\* p.k !== undefined (of the profile fields only geminiApiKey is ever stored as undefined)
Has(p, k) == k \in DOMAIN p /\ (k = "geminiApiKey" => p[k] # Undefined)

\* updateUserProfile: the row update built from the defined fields
UpdateObject(up, now) ==
  LET cols == {"updated_at"}
              \cup (IF Has(up, "name") THEN {"first_name"} ELSE {})
              \cup (IF Has(up, "currentCourse") THEN {"current_course"} ELSE {})
              \cup (IF Has(up, "gender") THEN {"gender"} ELSE {})
              \cup (IF Has(up, "isPremium") THEN {"is_premium"} ELSE {})
              \cup (IF Has(up, "dailyUsage")
                    THEN {"daily_usage_date", "daily_usage_count"} ELSE {})
              \cup (IF Has(up, "geminiApiKey") THEN {"gemini_api_key"} ELSE {})
  IN [c \in cols |->
        CASE c = "updated_at"        -> now
          [] c = "first_name"        -> up.name
          [] c = "current_course"    -> up.currentCourse
          [] c = "gender"            -> up.gender
          [] c = "is_premium"        -> up.isPremium
          [] c = "daily_usage_date"  -> up.dailyUsage.date
          [] c = "daily_usage_count" -> up.dailyUsage.count
          [] c = "gemini_api_key"    -> up.geminiApiKey]

\* the local profile state is not updated
MergeProfile_KeepsPrev(prev, updatedProfile) == prev

\* setProfile(prev => ({ ...prev, ...updatedProfile }))
MergeProfile(prev, updatedProfile) == updatedProfile @@ prev

\* fetchUserProfile: the profile built from the row
ProfileOfRow(row, now) ==
  [id |-> row.id, name |-> row.first_name, currentCourse |-> row.current_course,
   gender |-> IF row.gender = "mestre" THEN "mestre" ELSE "mestra",
   isPremium |-> row.is_premium,
   dailyUsage |-> [date |-> row.daily_usage_date, count |-> row.daily_usage_count],
   geminiApiKey |-> row.gemini_api_key]


\* ===================================================== handleGenerate
\* A handleGenerate invocation that is not running.
IdleReq ==
  [pc |-> "idle", user |-> [id |-> NoId], checkDay |-> 0, admitted |-> FALSE,
   prompt |-> << >>, external |-> FALSE, response |-> [kind |-> "none"],
   updatedUser |-> [id |-> NoId], updateObject |-> << >>, recordDay |-> 0,
   persisted |-> "none", calls |-> << >>, mounted |-> TRUE]

Outstanding(r) == r.pc \in {"awaitFetch", "awaitUpdate"}

\* what ai.models.generateContent can answer
Responses ==
  { [kind |-> "text",  text |-> "Informe de l'alumne"],
    [kind |-> "text",  text |-> ""],
    [kind |-> "error", message |-> "503 Service Unavailable"] }

\* thrown by fetchReportFromGemini itself when no credential is available
NoKeyError == [kind |-> "error", message |-> "API_KEY not found in environment variables"]

\* a generation that produced a report text
IsSuccess(response) == response.kind = "text" /\ response.text # ""

\* the string fetchReportFromGemini resolves with
fetchReportFromGemini(response) ==
  IF response.kind = "text"
  THEN (IF response.text # "" THEN <<response.text>>
        ELSE <<"No s'ha generat cap text.">>)
  ELSE <<"Error generant l'informe: ",
         IF response.message # "" THEN response.message ELSE "Error desconegut">>

\* userApiKey || import.meta.env.VITE_GEMINI_API_KEY
ApiKey(userApiKey) == IF userApiKey # Undefined THEN userApiKey ELSE envApiKey

\* the invocation record of a refused request
RefusedReq(user, now) ==
  [IdleReq EXCEPT !.pc = "done", !.user = user, !.checkDay = now,
                  !.calls = <<"checkDailyLimit">>]

\* usage recorded speculatively, before the generation call
AdmittedReq_UsageFirst(user, now, prompt) ==
  LET external == ApiKey(user.geminiApiKey) # Undefined
  IN [IdleReq EXCEPT !.pc = "awaitFetch", !.user = user, !.checkDay = now,
                     !.admitted = TRUE, !.prompt = prompt, !.external = external,
                     !.updatedUser = incrementDailyUsage(user, now),
                     !.calls = <<"checkDailyLimit", "generatePrompt",
                                 "incrementDailyUsage", "fetchReportFromGemini">>
                               \o (IF external THEN <<"generateContent">> ELSE << >>)]

\* the invocation record of an admitted request awaiting fetchReportFromGemini
AdmittedReq(user, now, prompt) ==
  LET external == ApiKey(user.geminiApiKey) # Undefined
  IN [IdleReq EXCEPT !.pc = "awaitFetch", !.user = user, !.checkDay = now,
                     !.admitted = TRUE, !.prompt = prompt, !.external = external,
                     !.calls = <<"checkDailyLimit", "generatePrompt",
                                 "fetchReportFromGemini">>
                               \o (IF external THEN <<"generateContent">> ELSE << >>)]

\* the prompt handleGenerate compiles from the Evaluator's state
CompiledPrompt ==
  generatePrompt(data.students[selectedStudent], data.subjects[selectedSubject],
                 trimester, activeBlocks, data.gradients, data.comments,
                 evaluations, profile.gender)

\* the previous prompt and report cleared before the limit is checked
handleGenerate_ClearsFirst(s) ==
  /\ selectedStudent # 0 /\ selectedSubject # 0 /\ trimester # NoId
  /\ IF ~checkDailyLimit(profile, today)
     THEN /\ showLimitModal' = TRUE
          /\ reqs' = [reqs EXCEPT ![s] = RefusedReq(profile, today)]
          /\ geminiReport' = << >> /\ generatedPrompt' = << >>
          /\ UNCHANGED loading
     ELSE /\ showLimitModal' = FALSE
          /\ loading' = TRUE
          /\ geminiReport' = << >>
          /\ generatedPrompt' = CompiledPrompt
          /\ reqs' = [reqs EXCEPT ![s] = AdmittedReq(profile, today, CompiledPrompt)]
  /\ UNCHANGED <<appVars, today, sessVars, navVars, evaluations, lastOp, fnVars>>

\* (the state setters of an invocation whose Evaluator has been unmounted, mounted
\* = FALSE, set nothing: the Evaluator on screen is another instance)
\* handleGenerate up to its first await (lines 59-87), run as invocation s
handleGenerate(s) ==
  /\ selectedStudent # 0 /\ selectedSubject # 0 /\ trimester # NoId
  /\ IF ~checkDailyLimit(profile, today)
     THEN /\ showLimitModal' = TRUE
          /\ reqs' = [reqs EXCEPT ![s] = RefusedReq(profile, today)]
          /\ UNCHANGED <<generatedPrompt, geminiReport, loading>>
     ELSE /\ showLimitModal' = FALSE
          /\ loading' = TRUE
          /\ geminiReport' = << >>
          /\ generatedPrompt' = CompiledPrompt
          /\ reqs' = [reqs EXCEPT ![s] = AdmittedReq(profile, today, CompiledPrompt)]
  /\ UNCHANGED <<appVars, today, sessVars, navVars, evaluations, lastOp, fnVars>>

\* the generate button (disabled while there is no active block); the
\* invocation takes the first position that is not outstanding
ClickGenerate(s) ==
  /\ ~Outstanding(reqs[s])
  /\ \A r \in 1..(s-1) : Outstanding(reqs[r])
  /\ activeBlocks # << >>
  /\ handleGenerate(s)

\* fetchReportFromGemini resolves; handleGenerate runs on to the await of
\* onUpdateUser (lines 88-92), updateUserProfile to its await (lines 256-279)
FetchResolve(s, response) ==
  /\ reqs[s].pc = "awaitFetch"
  /\ response \in (IF reqs[s].external THEN Responses ELSE {NoKeyError})
  /\ LET updatedUser == incrementDailyUsage(reqs[s].user, today)
     IN reqs' = [reqs EXCEPT ![s] =
                   [@ EXCEPT !.pc = "awaitUpdate", !.response = response,
                             !.updatedUser = updatedUser,
                             !.updateObject = UpdateObject(updatedUser, today),
                             !.recordDay = today,
                             !.calls = @ \o <<"fetchReportFromGemini:return",
                                              "incrementDailyUsage",
                                              "onUpdateUser">>]]
  /\ geminiReport' = IF reqs[s].mounted THEN fetchReportFromGemini(response)
                     ELSE geminiReport
  /\ UNCHANGED <<appVars, today, sessVars, navVars, evaluations, generatedPrompt,
                 loading, showLimitModal, lastOp, fnVars>>

\* the backend answers the row update; updateUserProfile (lines 281-288)
\* and handleGenerate (lines 97-99) run to their end
UpdateResolve(s, updateError) ==
  /\ reqs[s].pc = "awaitUpdate"
  /\ IF updateError
     THEN UNCHANGED sessVars
     ELSE /\ dbProfile' = reqs[s].updateObject @@ dbProfile
          /\ profile' = MergeProfile(profile, reqs[s].updatedUser)
  /\ reqs' = [reqs EXCEPT ![s] =
                [@ EXCEPT !.pc = "done",
                          !.persisted = IF updateError THEN "error" ELSE "ok"]]
  /\ loading' = IF reqs[s].mounted THEN FALSE ELSE loading
  /\ UNCHANGED <<appVars, today, navVars, evaluations, generatedPrompt,
                 geminiReport, showLimitModal, lastOp, fnVars>>

\* the awaited row update rejects instead of answering: updateUserProfile and
\* onUpdateUser reject with it and handleGenerate's catch and finally run
\* (lines 93-99)
UpdateReject(s) ==
  /\ reqs[s].pc = "awaitUpdate"
  /\ reqs' = [reqs EXCEPT ![s] = [@ EXCEPT !.pc = "done", !.persisted = "throw"]]
  /\ geminiReport' = IF reqs[s].mounted THEN <<"Error connectant amb Gemini.">>
                     ELSE geminiReport
  /\ loading' = IF reqs[s].mounted THEN FALSE ELSE loading
  /\ UNCHANGED <<appVars, today, sessVars, navVars, evaluations, generatedPrompt,
                 showLimitModal, lastOp, fnVars>>

\* midnight (UTC) passes
Tick ==
  /\ today < MaxDay
  /\ today' = today + 1
  /\ UNCHANGED <<appVars, sessVars, navVars, evaluations, outVars, reqs,
                 lastOp, fnVars>>

\* ================================================ settings: dataActions
\* the ids the backend gives to inserted rows, in the order of insertion
NewIds == <<"n1", "n2", "n3">>

Tables == {"students", "subjects", "blocks", "gradients", "comments"}

IdsOf(seq) == {seq[i].id : i \in 1..Len(seq)}

\* no dataActions call made
NoCalls == [made |-> 0, running |-> EmptyBag]

\* a call is made: it runs to its first await
Called(op) == [made |-> dataOps.made + 1, running |-> dataOps.running (+) SetToBag({op})]

\* a call in progress runs on to its next await
Advanced(op, next) ==
  [dataOps EXCEPT !.running = (@ (-) SetToBag({op})) (+) SetToBag({next})]

\* a call in progress returns
Returned(op) == [dataOps EXCEPT !.running = @ (-) SetToBag({op})]

Running(op) == BagIn(op, dataOps.running)

\* the rows of the backend tables that hold the given AppData
DbOf(appData) ==
  [students |-> Range(appData.students), subjects |-> Range(appData.subjects),
   blocks |-> Range(appData.blocks), gradients |-> Range(appData.gradients),
   comments |-> Range(appData.comments), inserted |-> 0, refused |-> 0]

\* supabase.from(table).delete().in('id', ids); an error deletes nothing and is only logged
DbDelete(store, table, ids, error) ==
  IF error THEN [store EXCEPT !.refused = @ + 1]
  ELSE [store EXCEPT ![table] = {r \in @ : r.id \notin ids}]

\* supabase.from(table).insert(row).select().single()
DbInsert(store, table, row) ==
  [store EXCEPT ![table] = @ \cup {row}, !.inserted = @ + 1]

\* supabase.from(table).update(row).eq('id', row.id).select().single()
DbUpdate(store, table, row) ==
  [store EXCEPT ![table] = {IF r.id = row.id THEN row ELSE r : r \in @}]

\* the rows being inserted by calls in progress
Inserting ==
  LET ins == {op \in BagToSet(dataOps.running) : op.pc = "insert"}
      rows(op) == IF op.kind = "import" THEN 1 + Len(op.rest) ELSE 1
  IN BagCardinality([op \in ins |-> rows(op) * CopiesIn(op, dataOps.running)])

dataFrame == <<today, envApiKey, profile, dbProfile, navVars, evaluations, outVars, reqs,
               lastOp, fnVars, currentView, profileOps, blocksTab, account>>

\* dataActions.<table>.create(row): up to the await of the insert
CreateClick(table, row) ==
  /\ dataOps.made < MaxDataOps
  /\ db.inserted + Inserting < MaxCreates
  /\ dataOps' = Called([kind |-> "create", pc |-> "insert", table |-> table, row |-> row])
  /\ UNCHANGED <<data, db, dataFrame>>

\* the insert answers: the new row is appended to data, an error changes nothing
CreateAnswer(op, error) ==
  IF error
  THEN /\ db' = [db EXCEPT !.refused = @ + 1]
       /\ UNCHANGED data
  ELSE LET newRow == [id |-> NewIds[db.inserted + 1]] @@ op.row
           table == op.table
       IN /\ db' = DbInsert(db, table, newRow)
          /\ data' = [data EXCEPT ![table] = Append(@, newRow)]

\* dataActions.<table>.create(row): from the answer of the insert to the return
CreateResolve(op, error) ==
  /\ Running(op) /\ op.kind = "create"
  /\ CreateAnswer(op, error)
  /\ dataOps' = Returned(op)
  /\ UNCHANGED dataFrame

\* the update answers: single() gives an error when no row has the id; the row
\* the backend returns replaces the one of the same id in data
UpdateAnswer(op, error) ==
  LET row == op.row
      table == op.table
      updated == ~error /\ \E r \in db[table] : r.id = row.id
  IN IF updated
     THEN /\ db' = DbUpdate(db, table, row)
          /\ data' = [data EXCEPT ![table] =
                        [i \in 1..Len(@) |-> IF @[i].id = row.id THEN row ELSE @[i]]]
     ELSE /\ db' = [db EXCEPT !.refused = @ + (IF error THEN 1 ELSE 0)]
          /\ UNCHANGED data

\* data!.blocks.filter(b => ids.includes(b.subject_id)).map(b => b.id), on the
\* data of the render the call was made in
blocksToDelete(op) ==
  {b.id : b \in {x \in Range(op.data.blocks) : x.subject_id \in op.ids}}

\* the ids of the rows of the closure's data that belong to the given blocks
OwnedIds(rows, blockIds) == {r.id : r \in {x \in Range(rows) : x.block_id \in blockIds}}

\* dataActions.subjects.delete(ids): up to the await of deleteSubjects
SubjectsDeleteClick(ids) ==
  /\ dataOps.made < MaxDataOps
  /\ ids # {} /\ ids \subseteq IdsOf(data.subjects)
  /\ dataOps' = Called([kind |-> "subjects.delete", pc |-> "deleteSubjects", ids |-> ids, data |-> data])
  /\ UNCHANGED <<data, db, dataFrame>>

\* the filter subjects.delete gives to setData
SubjectsDeleteData(prev, ids, toDelete) ==
  [prev EXCEPT !.subjects = SelectSeq(@, LAMBDA x : x.id \notin ids),
               !.blocks = SelectSeq(@, LAMBDA b : b.id \notin toDelete),
               !.gradients = SelectSeq(@, LAMBDA g : g.block_id \notin toDelete),
               !.comments = SelectSeq(@, LAMBDA c : c.block_id \notin toDelete)]

\* one backend delete of subjects.delete answers and the call runs to its next
\* await; after the last one setData is called
SubjectsDeleteStep(op, error) ==
  /\ Running(op) /\ op.kind = "subjects.delete"
  /\ LET toDelete == blocksToDelete(op)
     IN CASE op.pc = "deleteSubjects" ->
               /\ db' = DbDelete(db, "subjects", op.ids, error)
               /\ dataOps' = Advanced(op, [op EXCEPT !.pc = "deleteBlocks"])
               /\ UNCHANGED data
          [] op.pc = "deleteBlocks" ->
               /\ db' = DbDelete(db, "blocks", toDelete, error)
               /\ dataOps' = Advanced(op, [op EXCEPT !.pc = "deleteGradients"])
               /\ UNCHANGED data
          [] op.pc = "deleteGradients" ->
               /\ db' = DbDelete(db, "gradients", OwnedIds(op.data.gradients, toDelete), error)
               /\ dataOps' = Advanced(op, [op EXCEPT !.pc = "deleteComments"])
               /\ UNCHANGED data
          [] op.pc = "deleteComments" ->
               /\ db' = DbDelete(db, "comments", OwnedIds(op.data.comments, toDelete), error)
               /\ data' = SubjectsDeleteData(data, op.ids, toDelete)
               /\ dataOps' = Returned(op)
  /\ UNCHANGED dataFrame

\* dataActions.blocks.delete(ids): up to the await of deleteBlocks
BlocksDeleteClick(ids) ==
  /\ dataOps.made < MaxDataOps
  /\ ids # {} /\ ids \subseteq IdsOf(data.blocks)
  /\ dataOps' = Called([kind |-> "blocks.delete", pc |-> "deleteBlocks", ids |-> ids, data |-> data])
  /\ UNCHANGED <<data, db, dataFrame>>

BlocksDeleteData_KeepsContent(prev, ids) ==
  [prev EXCEPT !.blocks = SelectSeq(@, LAMBDA b : b.id \notin ids)]

\* the filter blocks.delete gives to setData
BlocksDeleteData(prev, ids) ==
  [prev EXCEPT !.blocks = SelectSeq(@, LAMBDA b : b.id \notin ids),
               !.gradients = SelectSeq(@, LAMBDA g : g.block_id \notin ids),
               !.comments = SelectSeq(@, LAMBDA c : c.block_id \notin ids)]

BlocksDeleteStep(op, error) ==
  /\ Running(op) /\ op.kind = "blocks.delete"
  /\ CASE op.pc = "deleteBlocks" ->
               /\ db' = DbDelete(db, "blocks", op.ids, error)
               /\ dataOps' = Advanced(op, [op EXCEPT !.pc = "deleteGradients"])
               /\ UNCHANGED data
          [] op.pc = "deleteGradients" ->
               /\ db' = DbDelete(db, "gradients", OwnedIds(op.data.gradients, op.ids), error)
               /\ dataOps' = Advanced(op, [op EXCEPT !.pc = "deleteComments"])
               /\ UNCHANGED data
          [] op.pc = "deleteComments" ->
               /\ db' = DbDelete(db, "comments", OwnedIds(op.data.comments, op.ids), error)
               /\ data' = BlocksDeleteData(data, op.ids)
               /\ dataOps' = Returned(op)
  /\ UNCHANGED dataFrame

\* ================================================== settings: BlocksTab
\* activeBlocks: the ids of the blocks of the subject chosen in the selector (line 745)
tabBlocksOf(appData, tab) ==
  {b.id : b \in {x \in Range(appData.blocks) : x.subject_id = tab.selectedSubjectId}}

\* onChange of a trimester checkbox: checked appends t, unchecked filters it out
ToggleTrim(trims, t) == IF t \in trims THEN trims \ {t} ELSE trims \cup {t}

\* several calls are made one after the other by one handler: the first runs to its await
CalledTimes(op, n) ==
  [made |-> dataOps.made + n, running |-> dataOps.running (+) SetToBag({op})]

tabFrame == <<today, envApiKey, profile, dbProfile, navVars, evaluations, outVars, reqs,
              lastOp, fnVars, currentView, profileOps, account>>

\* the name input of the add form
setNewBlockName(name) ==
  /\ blocksTab' = [blocksTab EXCEPT !.newBlockName = name]
  /\ UNCHANGED <<data, db, dataOps, tabFrame>>

\* a trimester checkbox of the add form (lines 885-888)
setNewBlockTrims(t) ==
  /\ blocksTab' = [blocksTab EXCEPT !.newBlockTrims = ToggleTrim(@, t)]
  /\ UNCHANGED <<data, db, dataOps, tabFrame>>

\* addBlock: up to the await of dataActions.blocks.create
addBlock ==
  /\ blocksTab.newBlockName # "" /\ blocksTab.selectedSubjectId # NoId
  /\ dataOps.made < MaxDataOps
  /\ db.inserted + Inserting < MaxCreates
  /\ dataOps' = Called([kind |-> "addBlock", pc |-> "insert", table |-> "blocks",
                        row |-> [subject_id |-> blocksTab.selectedSubjectId,
                                 name |-> blocksTab.newBlockName,
                                 trimesters |-> blocksTab.newBlockTrims]])
  /\ UNCHANGED <<data, db, blocksTab, tabFrame>>

\* addBlock: the create returns and the name input is emptied
addBlockResolve(op, error) ==
  /\ Running(op) /\ op.kind = "addBlock"
  /\ CreateAnswer(op, error)
  /\ dataOps' = Returned(op)
  /\ blocksTab' = [blocksTab EXCEPT !.newBlockName = ""]
  /\ UNCHANGED tabFrame

\* parseCSV on the split and trimmed lines: rows without a first field are dropped
parseCSV(rows) == SelectSeq(rows, LAMBDA r : Len(r) > 0 /\ r[1] # "")

\* r[1].match(/[123]/g) of the second field, a sequence of characters; match
\* gives null, here << >>, when no character matches
MatchTrims(field) == SelectSeq(field, LAMBDA ch : ch \in Trimesters)

\* the trimesters handleImportBlocks gives to the block of a row (lines 763-767)
ImportedTrims(r) ==
  LET tRaw == IF Len(r) > 1 /\ r[2] # << >> THEN MatchTrims(r[2]) ELSE <<"1", "2", "3">>
  IN IF tRaw # << >> THEN Range(tRaw) ELSE {"1", "2", "3"}

\* blocksToCreate of handleImportBlocks
ImportedBlocks(rows) ==
  LET named == SelectSeq(rows, LAMBDA r : r[1] # "")
  IN [i \in 1..Len(named) |-> [subject_id |-> blocksTab.selectedSubjectId,
                               name |-> named[i][1], trimesters |-> ImportedTrims(named[i])]]

\* handleImportBlocks: up to the await of the first create
handleImportBlocks(content) ==
  /\ blocksTab.selectedSubjectId # NoId
  /\ LET blocksToCreate == ImportedBlocks(parseCSV(content))
     IN /\ dataOps.made + Len(blocksToCreate) <= MaxDataOps
        /\ db.inserted + Inserting + Len(blocksToCreate) <= MaxCreates
        /\ IF blocksToCreate # << >>
           THEN dataOps' = CalledTimes([kind |-> "import", pc |-> "insert", table |-> "blocks",
                                        row |-> Head(blocksToCreate),
                                        rest |-> Tail(blocksToCreate)], Len(blocksToCreate))
           ELSE UNCHANGED dataOps
  /\ UNCHANGED <<data, db, blocksTab, tabFrame>>

\* handleImportBlocks: a create returns, the next block is created or the loop ends
handleImportBlocksResolve(op, error) ==
  /\ Running(op) /\ op.kind = "import"
  /\ CreateAnswer(op, error)
  /\ dataOps' = IF op.rest # << >>
                THEN Advanced(op, [op EXCEPT !.row = Head(op.rest), !.rest = Tail(op.rest)])
                ELSE Returned(op)
  /\ UNCHANGED <<blocksTab, tabFrame>>

\* the block of the given id in a data, data.blocks.find(b => b.id === id)
FindBlock(appData, id) == {b \in Range(appData.blocks) : b.id = id}

\* BlocksTab as constructed on the given data (lines 728-736)
BlocksTabMounted(appData) ==
  [selectedSubjectId |-> IF appData.subjects # << >> THEN appData.subjects[1].id ELSE NoId,
   newBlockName |-> "", newBlockTrims |-> {"1", "2", "3"},
   editingId |-> Null, editForm |-> [name |-> "", trims |-> {}]]

\* startEdit(b), the pencil of a listed block (line 835)
startEdit(b) ==
  /\ b.id \in tabBlocksOf(data, blocksTab)
  /\ blocksTab' = [blocksTab EXCEPT !.editingId = b.id,
                                    !.editForm = [name |-> b.name, trims |-> b.trimesters]]
  /\ UNCHANGED <<data, db, dataOps, tabFrame>>

\* a trimester checkbox of the row being edited (lines 942-945)
setEditFormTrims(t) ==
  /\ blocksTab.editingId \in tabBlocksOf(data, blocksTab)
  /\ blocksTab' = [blocksTab EXCEPT !.editForm.trims = ToggleTrim(@, t)]
  /\ UNCHANGED <<data, db, dataOps, tabFrame>>

\* the X button of the row being edited (line 950)
cancelEdit ==
  /\ blocksTab.editingId \in tabBlocksOf(data, blocksTab)
  /\ blocksTab' = [blocksTab EXCEPT !.editingId = Null]
  /\ UNCHANGED <<data, db, dataOps, tabFrame>>

\* saveEdit: up to the await of dataActions.blocks.update
saveEdit ==
  /\ blocksTab.editingId \in tabBlocksOf(data, blocksTab)
  /\ blocksTab.editingId # Null /\ blocksTab.editForm.name # ""
  /\ LET found == FindBlock(data, blocksTab.editingId)
     IN IF found # {}
        THEN /\ dataOps.made < MaxDataOps
             /\ LET blockToUpdate == CHOOSE b \in found : TRUE
                IN dataOps' = Called([kind |-> "saveEdit", pc |-> "update", table |-> "blocks",
                                      row |-> [blockToUpdate EXCEPT
                                                 !.name = blocksTab.editForm.name,
                                                 !.trimesters = blocksTab.editForm.trims]])
             /\ UNCHANGED blocksTab
        ELSE /\ blocksTab' = [blocksTab EXCEPT !.editingId = Null]
             /\ UNCHANGED dataOps
  /\ UNCHANGED <<data, db, tabFrame>>

\* saveEdit: the update returns and the row leaves edit mode
saveEditResolve(op, error) ==
  /\ Running(op) /\ op.kind = "saveEdit"
  /\ UpdateAnswer(op, error)
  /\ dataOps' = Returned(op)
  /\ blocksTab' = [blocksTab EXCEPT !.editingId = Null]
  /\ UNCHANGED tabFrame

\* the block bulkSetTrims sends for an id: the block of the render the buttons
\* were drawn in, with the trimesters replaced
BulkRow(appData, id, trims) ==
  [(CHOOSE b \in FindBlock(appData, id) : TRUE) EXCEPT !.trimesters = trims]

\* bulkSetTrims(trims) on the blocks ticked in the list, in the order they were
\* ticked: up to the await of the first update
bulkSetTrims(selectedIds, trims) ==
  /\ selectedIds # << >>
  /\ Range(selectedIds) \subseteq tabBlocksOf(data, blocksTab)
  /\ dataOps.made + Len(selectedIds) <= MaxDataOps
  /\ dataOps' = CalledTimes([kind |-> "bulkSetTrims", pc |-> "update", table |-> "blocks",
                             row |-> BulkRow(data, Head(selectedIds), trims),
                             rest |-> Tail(selectedIds), trims |-> trims, data |-> data],
                            Len(selectedIds))
  /\ UNCHANGED <<data, db, blocksTab, tabFrame>>

\* bulkSetTrims: an update returns, the next ticked block is updated or the loop ends
bulkSetTrimsResolve(op, error) ==
  /\ Running(op) /\ op.kind = "bulkSetTrims"
  /\ UpdateAnswer(op, error)
  /\ dataOps' = IF op.rest # << >>
                THEN Advanced(op, [op EXCEPT !.row = BulkRow(op.data, Head(op.rest), op.trims),
                                             !.rest = Tail(op.rest)])
                ELSE Returned(op)
  /\ UNCHANGED <<blocksTab, tabFrame>>

\* ================================================= settings: ProfileTab
NoProfileOp == [kind |-> "none", pc |-> "idle"]

profileFrame == <<data, today, envApiKey, navVars, evaluations, outVars, reqs, lastOp,
                  fnVars, currentView, db, dataOps, blocksTab, account>>

\* onUpdateUser(updatedProfile) called by a handler of ProfileTab, run as call o:
\* handleUpdateUser and updateUserProfile up to the await of the row update
\* (part_004 lines 49-52, SessionContextProvider lines 256-277)
onUpdateUser(o, kind, updatedProfile) ==
  /\ profileOps[o] = NoProfileOp
  /\ \A q \in 1..(o-1) : profileOps[q] # NoProfileOp
  /\ profileOps' = [profileOps EXCEPT ![o] =
                      [kind |-> kind, pc |-> "awaitUpdate", updatedProfile |-> updatedProfile,
                       updateObject |-> UpdateObject(updatedProfile, today)]]
  /\ UNCHANGED <<sessVars, profileFrame>>

\* handleSave with the form as filled in (lines 129-139)
handleSave(o, form) ==
  onUpdateUser(o, "handleSave",
               [name |-> form.name, currentCourse |-> form.course, gender |-> form.gender])

\* promoCode.trim().toLowerCase() of the codes typed
NormalisedCode(promoCode) ==
  CASE promoCode = " Loma " -> "loma"
    [] promoCode = "LOMA" -> "loma"
    [] promoCode = " proves" -> "proves"
    [] OTHER -> promoCode

\* handlePromoCode (lines 144-152): a wrong code changes nothing
handlePromoCode(o, promoCode) ==
  IF NormalisedCode(promoCode) = "loma"
  THEN onUpdateUser(o, "handlePromoCode", [isPremium |-> TRUE])
  ELSE UNCHANGED vars

\* handlePaymentSimulation, the payment confirmed (lines 154-160)
handlePaymentSimulation(o) ==
  onUpdateUser(o, "handlePaymentSimulation", [isPremium |-> TRUE])

\* the row update of a ProfileTab call answers or rejects; updateUserProfile
\* runs to its end (lines 279-288) and the handler returns
ProfileUpdateResolve(o, outcome) ==
  /\ profileOps[o].pc = "awaitUpdate"
  /\ IF outcome = "ok"
     THEN /\ dbProfile' = profileOps[o].updateObject @@ dbProfile
          /\ profile' = MergeProfile(profile, profileOps[o].updatedProfile)
     ELSE UNCHANGED sessVars
  /\ profileOps' = [profileOps EXCEPT ![o] = NoProfileOp]
  /\ UNCHANGED profileFrame

\* ====================================================== AppContent: views
\* the navigation buttons (part_004, lines 187 and 198): the view left is
\* unmounted and loses its state, the view entered is constructed anew (Settings
\* is taken on its blocks tab); the handleGenerate invocations that are
\* outstanding go on without an Evaluator
setCurrentView(view) ==
  /\ view # currentView
  /\ currentView' = view
  /\ blocksTab' = BlocksTabMounted(data)
  /\ IF view = "settings"
     THEN /\ trimester' = NoId /\ selectedStudentId' = NoId /\ selectedSubjectId' = NoId
          /\ evaluations' = << >>
          /\ generatedPrompt' = << >> /\ geminiReport' = << >>
          /\ loading' = FALSE /\ showLimitModal' = FALSE
          /\ reqs' = [s \in DOMAIN reqs |->
                        IF Outstanding(reqs[s]) THEN [reqs[s] EXCEPT !.mounted = FALSE]
                        ELSE reqs[s]]
     ELSE UNCHANGED <<navVars, evaluations, outVars, reqs>>
  /\ UNCHANGED <<data, envApiKey, db, dataOps, profileOps, account, today, sessVars,
                 lastOp, fnVars>>

\* ===================================================== session: accounts
\* the accounts that can sign in on this browser: u1 has a row in 'profiles',
\* u2 has none yet
Accounts == {"u1", "u2"}

\* profile === null
NoProfile == [id |-> NoId]

\* data === null is account.dataOf = NoId; the variable data is then left empty
EmptyData ==
  [students |-> << >>, subjects |-> << >>, blocks |-> << >>,
   gradients |-> << >>, comments |-> << >>]

\* fetchUserProfile after its await: the UserProfile mapped from the row, or from
\* the defaults when the account has no row (profileData null)
userProfile(u, row, now) ==
  IF row.id = u THEN ProfileOfRow(row, now)
  ELSE [id |-> u, name |-> "Usuari", currentCourse |-> "1r", gender |-> "mestra",
        isPremium |-> FALSE, dailyUsage |-> [date |-> now, count |-> 0],
        geminiApiKey |-> Undefined]

\* fetchAllUserData: the rows whose user_id is userId
fetchAllUserData(userId) == IF userId = "u1" THEN AppData0 ELSE EmptyData

\* AppContent's effect on [profile, user], run after the render that follows a
\* change of either: acc holds the new user, p is the new profile
AppEffect(acc, p) ==
  IF p.id # NoId /\ acc.user # NoId
  THEN IF acc.user # acc.lastLoadedUserId
       THEN [acc EXCEPT !.lastLoadedUserId = acc.user, !.loads = @ + 1,
                        !.loading = @ (+) SetToBag({p.id}), !.appDataLoading = TRUE]
       ELSE acc
  ELSE [acc EXCEPT !.lastLoadedUserId = NoId, !.dataOf = NoId, !.appDataLoading = FALSE]

\* AppContent renders the navigation and the current view (neither Login nor
\* one of the two 'Carregant' screens)
ViewsShown(acc, p) ==
  acc.user # NoId /\ p.id # NoId /\ ~acc.appDataLoading /\ acc.dataOf # NoId

\* the render after a change of session state: with acc, p and d the new account
\* state, profile and data; views that are not rendered are unmounted and lose
\* their state
Render(acc, p, d) ==
  /\ account' = acc /\ profile' = p /\ data' = d
  /\ IF ViewsShown(acc, p)
     THEN UNCHANGED <<navVars, evaluations, outVars, reqs, blocksTab>>
     ELSE /\ trimester' = NoId /\ selectedStudentId' = NoId /\ selectedSubjectId' = NoId
          /\ evaluations' = << >>
          /\ generatedPrompt' = << >> /\ geminiReport' = << >>
          /\ loading' = FALSE /\ showLimitModal' = FALSE
          /\ reqs' = [s \in DOMAIN reqs |->
                        IF Outstanding(reqs[s]) THEN [reqs[s] EXCEPT !.mounted = FALSE]
                        ELSE reqs[s]]
          /\ blocksTab' = BlocksTabMounted(d)
  /\ UNCHANGED <<today, envApiKey, dbProfile, currentView, db, dataOps, profileOps,
                 lastOp, fnVars>>

\* the listener registered with supabase.auth.onAuthStateChange, up to the await
\* in fetchUserProfile; u is currentSession?.user.id, NoId without a session
onAuthStateChange(u) ==
  LET heard == [account EXCEPT !.user = u, !.events = @ + 1]
  IN IF u # NoId
     THEN LET acc == [heard EXCEPT !.fetches = @ + 1, !.fetching = @ (+) SetToBag({u})]
          IN Render(AppEffect(acc, profile), profile,
                    IF AppEffect(acc, profile).dataOf = NoId THEN EmptyData ELSE data)
     ELSE Render(AppEffect(heard, NoProfile), NoProfile, EmptyData)

\* fetchUserProfile(supabaseUser) after its await: setProfile(userProfile)
fetchUserProfileResolve(u) ==
  /\ BagIn(u, account.fetching)
  /\ LET acc == [account EXCEPT !.fetching = @ (-) SetToBag({u})]
         p == userProfile(u, dbProfile, today)
     IN Render(AppEffect(acc, p), p,
               IF AppEffect(acc, p).dataOf = NoId THEN EmptyData ELSE data)

\* logout after the await of signOut
logout ==
  /\ profile.id # NoId
  /\ Render(AppEffect([account EXCEPT !.user = NoId], NoProfile), NoProfile, EmptyData)

\* loadAppData(userId) after its await: setData(fetchedData); setAppDataLoading(false)
loadAppDataResolve(userId) ==
  /\ BagIn(userId, account.loading)
  /\ Render([account EXCEPT !.loading = @ (-) SetToBag({userId}),
                            !.dataOf = userId, !.appDataLoading = FALSE],
            profile, fetchAllUserData(userId))


\* ======================================================== initial states
\* BlocksTab on the rubric as loaded
BlocksTab0 == BlocksTabMounted(AppData0)

\* account u1 signed in, its profile and its data fetched once
Account0 ==
  [user |-> "u1", events |-> 0, fetches |-> 0, fetching |-> EmptyBag,
   lastLoadedUserId |-> "u1", loads |-> 0, loading |-> EmptyBag, dataOf |-> "u1",
   appDataLoading |-> FALSE]

\* AppContent on the evaluator view, the rubric loaded, no settings call in progress
InitSettings ==
  /\ currentView = "evaluator"
  /\ db = DbOf(AppData0)
  /\ dataOps = NoCalls
  /\ profileOps = [o \in 1..MaxProfileOps |-> NoProfileOp]
  /\ blocksTab = BlocksTab0
  /\ account = Account0

NoOp == [op |-> "none"]
NoArgs == [fn |-> "none"]

\* a row of the backend table 'profiles'
ProfileRow(prem, d, c, k) ==
  [id |-> "u1", first_name |-> "Marta", current_course |-> "3r",
   gender |-> "mestra", is_premium |-> prem, daily_usage_date |-> d,
   daily_usage_count |-> c, gemini_api_key |-> k, updated_at |-> 0]

\* the usage counts an account starts from
InitCounts == {0, DailyLimit - 1} \cup (DailyLimit..MaxCount)

\* the rows the signed-in account can have (day 0 is a day before day 1):
\* free with usage dated today, free at the limit of an earlier day, premium
ProfileRows ==
  { ProfileRow(FALSE, 1, c, Undefined) : c \in InitCounts }
  \cup { ProfileRow(FALSE, 0, DailyLimit, Undefined),
         ProfileRow(TRUE, 1, DailyLimit, "userKey") }

\* selections the teacher can have made for subject su1 in trimester 2
SomeEvaluations ==
  { [b \in {"b1", "b2"} |-> IF b = "b1" THEN [gradientId |-> Null, commentIds |-> <<"c3">>]
                            ELSE [gradientId |-> "g3", commentIds |-> << >>]] }

\* nothing generated yet, no function under test
InitIdle ==
  /\ data = AppData0
  /\ InitSettings
  /\ reqs = [s \in 1..MaxConcurrent |-> IdleReq]
  /\ invocations = 0
  /\ admittedToday = 0 /\ persistFailures = 0
  /\ generatedPrompt = << >> /\ geminiReport = << >>
  /\ loading = FALSE /\ showLimitModal = FALSE
  /\ lastOp = NoOp /\ fnArgs = NoArgs /\ fnResult = NoArgs

\* signed in, profile fetched, the Evaluator on its evaluation form
InitForm ==
  /\ InitIdle
  /\ today = 1
  /\ dbProfile \in ProfileRows
  /\ envApiKey \in (IF dbProfile.gemini_api_key = Undefined
                    THEN {Undefined, "envKey"} ELSE {Undefined})
  /\ profile = ProfileOfRow(dbProfile, today)
  /\ trimester = "2" /\ selectedStudentId = "st1" /\ selectedSubjectId = "su1"
  /\ evaluations \in SomeEvaluations

\* ---- Spec: report requests of one account, overlapping allowed
Occurrences(calls, name) == Cardinality({i \in 1..Len(calls) : calls[i] = name})

Generate(s) ==
  /\ invocations < MaxInvocations
  /\ ClickGenerate(s)
  /\ invocations' = invocations + 1
  /\ UNCHANGED <<admittedToday, persistFailures>>

Generated(s, response) ==
  /\ FetchResolve(s, response)
  /\ UNCHANGED histVars

Persisted(s, updateError) ==
  /\ UpdateResolve(s, updateError)
  /\ UNCHANGED histVars

Rejected(s) ==
  /\ UpdateReject(s)
  /\ UNCHANGED histVars

Midnight ==
  /\ Tick
  /\ UNCHANGED histVars

Init == InitForm

Next ==
  \/ \E s \in 1..MaxConcurrent : Generate(s)
  \/ \E s \in 1..MaxConcurrent : \E response \in Responses \cup {NoKeyError} :
        Generated(s, response)
  \/ \E s \in 1..MaxConcurrent : \E updateError \in BOOLEAN : Persisted(s, updateError)
  \/ \E s \in 1..MaxConcurrent : Rejected(s)
  \/ Midnight

Spec == Init /\ [][Next]_vars

TypeOK ==
  /\ today \in Days
  /\ loading \in BOOLEAN /\ showLimitModal \in BOOLEAN
  /\ \A s \in 1..MaxConcurrent : reqs[s].pc \in {"idle", "awaitFetch", "awaitUpdate", "done"}


\* ---- SpecSeq: report requests issued one at a time
SeqGenerate ==
  /\ invocations < MaxSeqInvocations
  /\ \A r \in 1..MaxConcurrent : ~Outstanding(reqs[r])
  /\ ClickGenerate(1)
  /\ invocations' = invocations + 1
  /\ admittedToday' = admittedToday + (IF reqs'[1].admitted THEN 1 ELSE 0)
  /\ UNCHANGED persistFailures

SeqGenerated(response) ==
  /\ FetchResolve(1, response)
  /\ UNCHANGED histVars

SeqPersisted(updateError) ==
  /\ UpdateResolve(1, updateError)
  /\ persistFailures' = persistFailures + (IF updateError THEN 1 ELSE 0)
  /\ UNCHANGED <<invocations, admittedToday>>

SeqRejected ==
  /\ UpdateReject(1)
  /\ persistFailures' = persistFailures + 1
  /\ UNCHANGED <<invocations, admittedToday>>

SeqMidnight ==
  /\ Tick
  /\ admittedToday' = 0
  /\ persistFailures' = 0
  /\ UNCHANGED invocations

NextSeq ==
  \/ SeqGenerate
  \/ \E response \in Responses \cup {NoKeyError} : SeqGenerated(response)
  \/ \E updateError \in BOOLEAN : SeqPersisted(updateError)
  \/ SeqRejected
  \/ SeqMidnight

SpecSeq == InitForm /\ [][NextSeq]_vars

\* ---- SpecQuota: checkDailyLimit and incrementDailyUsage on any profile
\* the profiles given to the quota functions
QuotaProfiles ==
  { [id |-> "u1", name |-> "Marta", currentCourse |-> "3r", gender |-> g,
     isPremium |-> prem, dailyUsage |-> [date |-> d, count |-> c],
     geminiApiKey |-> k] :
    g \in {"mestre", "mestra"}, prem \in BOOLEAN, d \in 0..MaxDay,
    c \in 0..(MaxCount + 1), k \in {Undefined, "userKey"} }

\* signed in, nothing selected in the Evaluator
InitSignedIn ==
  /\ data = AppData0
  /\ InitSettings
  /\ reqs = [s \in 1..MaxConcurrent |-> IdleReq]
  /\ invocations = 0 /\ admittedToday = 0 /\ persistFailures = 0
  /\ generatedPrompt = << >> /\ geminiReport = << >>
  /\ loading = FALSE /\ showLimitModal = FALSE
  /\ lastOp = NoOp
  /\ today = 1
  /\ envApiKey = Undefined
  /\ dbProfile = ProfileRow(FALSE, 1, 0, Undefined)
  /\ profile = ProfileOfRow(dbProfile, today)
  /\ trimester = NoId /\ selectedStudentId = NoId /\ selectedSubjectId = NoId
  /\ evaluations = << >>

InitQuota ==
  /\ InitSignedIn
  /\ fnArgs \in [fn : {"quota"}, user : QuotaProfiles, now : Days]
  /\ fnResult = NoArgs

nonFnVars == <<data, today, envApiKey, profile, dbProfile, trimester,
               selectedStudentId, selectedSubjectId, evaluations, generatedPrompt,
               geminiReport, loading, showLimitModal, reqs, invocations,
               admittedToday, persistFailures, lastOp, setVars>>

CallCheckDailyLimit ==
  /\ fnArgs.fn = "quota" /\ fnResult = NoArgs
  /\ fnResult' = [fn |-> "checkDailyLimit",
                  ret |-> checkDailyLimit(fnArgs.user, fnArgs.now),
                  user |-> fnArgs.user]
  /\ UNCHANGED <<nonFnVars, fnArgs>>

CallIncrementDailyUsage ==
  /\ fnArgs.fn = "quota" /\ fnResult = NoArgs
  /\ fnResult' = [fn |-> "incrementDailyUsage",
                  ret |-> incrementDailyUsage(fnArgs.user, fnArgs.now),
                  user |-> incrementDailyUsageInput(fnArgs.user, fnArgs.now)]
  /\ UNCHANGED <<nonFnVars, fnArgs>>

NextQuota == CallCheckDailyLimit \/ CallIncrementDailyUsage

SpecQuota == InitQuota /\ [][NextQuota]_vars

\* ---- SpecPrompt: generatePrompt on any block list and selection
BlockIds == {b.id : b \in Range(AppData0.blocks)}

\* lists of distinct blocks, of at most MaxBlocks blocks
BlockLists ==
  UNION { { l \in [1..n -> Range(AppData0.blocks)] :
              \A i, j \in 1..n : i # j => l[i] # l[j] } : n \in 0..MaxBlocks }

\* comment selections: none, one, two in and against the order of the bank,
\* and one with the id of a comment that is gone
PromptCommentLists == { << >>, <<"c1">>, <<"c2", "c1">>, <<"c2", "cX", "c1">> }

\* the gradient choices for a block: none, a gradient of the block, a gradient that is gone
PromptGradientIds(b) ==
  {Null, "gX"} \cup {g.id : g \in {x \in Range(AppData0.gradients) : x.block_id = b}}

\* selections over any set of blocks
PromptEvaluations ==
  UNION { { e \in [S -> [gradientId : {Null, "gX", "g1", "g3", "g4"},
                         commentIds : PromptCommentLists]] :
              \A b \in S : e[b].gradientId \in PromptGradientIds(b)
                           /\ (b = "b3" => e[b].commentIds \in {<< >>, <<"c1">>}) } :
          S \in SUBSET BlockIds }

InitPrompt ==
  /\ InitSignedIn
  /\ fnArgs \in [fn : {"prompt"},
                 who : { [student |-> AppData0.students[1], teacherGender |-> "mestra",
                          subject |-> AppData0.subjects[1], trimester |-> "1"],
                         [student |-> AppData0.students[2], teacherGender |-> "mestre",
                          subject |-> AppData0.subjects[2], trimester |-> "3"] },
                 blocks : BlockLists, evaluations : PromptEvaluations]
  /\ fnResult = NoArgs

\* generatePrompt with the arguments of fnArgs
PromptOfArgs ==
  generatePrompt(fnArgs.who.student, fnArgs.who.subject, fnArgs.who.trimester,
                 fnArgs.blocks, AppData0.gradients, AppData0.comments,
                 fnArgs.evaluations, fnArgs.who.teacherGender)

CallGeneratePrompt ==
  /\ fnArgs.fn = "prompt" /\ fnResult = NoArgs
  /\ fnResult' = [fn |-> "generatePrompt", ret |-> PromptOfArgs]
  /\ UNCHANGED <<nonFnVars, fnArgs>>

\* a second call with the same arguments; the first call's result is kept
CallGeneratePromptAgain ==
  /\ fnArgs.fn = "prompt" /\ fnResult.fn = "generatePrompt"
  /\ "first" \notin DOMAIN fnResult
  /\ fnResult' = [fn |-> "generatePrompt", ret |-> PromptOfArgs, first |-> fnResult.ret]
  /\ UNCHANGED <<nonFnVars, fnArgs>>

NextPrompt == CallGeneratePrompt \/ CallGeneratePromptAgain

SpecPrompt == InitPrompt /\ [][NextPrompt]_vars

\* ---- SpecSelect: the Evaluator from construction, its selection handlers
MaxComments == 3

\* the screen the Evaluator renders (Evaluator.tsx, the early returns of render)
Screen ==
  IF trimester = NoId THEN "trimester"
  ELSE IF selectedStudentId = NoId THEN "student"
  ELSE IF selectedSubjectId = NoId THEN "subject"
  ELSE "form"

\* evaluations[block.id] || { gradientId: null, commentIds: [] }
currentEval(blockId) ==
  IF blockId \in DOMAIN evaluations THEN evaluations[blockId]
  ELSE [gradientId |-> Null, commentIds |-> << >>]

\* the radios of a block offer every gradient of the rubric
blockGradients_AnyBlock(blockId) == Range(data.gradients)

blockGradients(blockId) == {g \in Range(data.gradients) : g.block_id = blockId}
blockComments(blockId) == {c \in Range(data.comments) : c.block_id = blockId}

\* the entry of the block replaced by one that holds the given field only
handleBlockChange_DropsOtherField(prev, blockId, field, value) ==
  LET entry == [gradientId |-> IF field = "gradientId" THEN value ELSE Null,
                commentIds |-> IF field = "commentIds" THEN value ELSE << >>]
  IN (blockId :> entry) @@ prev

\* the updater handleBlockChange gives to setEvaluations
handleBlockChange(prev, blockId, field, value) ==
  LET had == blockId \in DOMAIN prev
      entry == [gradientId |-> IF field = "gradientId" THEN value
                               ELSE IF had /\ prev[blockId].gradientId # ""
                                    THEN prev[blockId].gradientId ELSE Null,
                commentIds |-> IF field = "commentIds" THEN value
                               ELSE IF had THEN prev[blockId].commentIds ELSE << >>]
  IN (blockId :> entry) @@ prev

newIds_NoCap(commentIds, c, checked) ==
  IF checked THEN commentIds \o <<c>>
  ELSE SelectSeq(commentIds, LAMBDA id : id # c)

\* the list the checkbox's onChange computes; slice(0, 3) keeps the first three
newIds(commentIds, c, checked) ==
  IF checked
  THEN LET all == commentIds \o <<c>>
       IN SubSeq(all, 1, IF Len(all) < MaxComments THEN Len(all) ELSE MaxComments)
  ELSE SelectSeq(commentIds, LAMBDA id : id # c)

selVars == <<data, today, envApiKey, profile, dbProfile, reqs, fnArgs, fnResult, setVars>>

SetTrimester(t) ==
  /\ Screen = "trimester"
  /\ trimester' = t
  /\ UNCHANGED <<selVars, selectedStudentId, selectedSubjectId, evaluations, outVars>>

\* the back arrow of the student screen
ClearTrimester ==
  /\ Screen = "student"
  /\ trimester' = NoId
  /\ UNCHANGED <<selVars, selectedStudentId, selectedSubjectId, evaluations, outVars>>

SelectStudent(id) ==
  /\ Screen = "student"
  /\ selectedStudentId' = id
  /\ UNCHANGED <<selVars, trimester, selectedSubjectId, evaluations, outVars>>

\* the back arrow of the subject screen
ClearStudent ==
  /\ Screen = "subject"
  /\ selectedStudentId' = NoId
  /\ UNCHANGED <<selVars, trimester, selectedSubjectId, evaluations, outVars>>

SelectSubject(id) ==
  /\ Screen = "subject"
  /\ selectedSubjectId' = id
  /\ UNCHANGED <<selVars, trimester, selectedStudentId, evaluations, outVars>>

\* the selection outlives the subject it was made for
resetSubject_KeepsEvaluations ==
  /\ Screen = "form"
  /\ selectedSubjectId' = NoId
  /\ generatedPrompt' = << >>
  /\ geminiReport' = << >>
  /\ showLimitModal' = FALSE
  /\ UNCHANGED <<selVars, trimester, selectedStudentId, evaluations, loading>>

resetSubject ==
  /\ Screen = "form"
  /\ selectedSubjectId' = NoId
  /\ evaluations' = << >>
  /\ generatedPrompt' = << >>
  /\ geminiReport' = << >>
  /\ showLimitModal' = FALSE
  /\ UNCHANGED <<selVars, trimester, selectedStudentId, loading>>

resetStudent ==
  /\ Screen \in {"subject", "form"}
  /\ selectedStudentId' = NoId
  /\ selectedSubjectId' = NoId
  /\ evaluations' = << >>
  /\ generatedPrompt' = << >>
  /\ geminiReport' = << >>
  /\ showLimitModal' = FALSE
  /\ UNCHANGED <<selVars, trimester, loading>>

\* a gradient's radio button
ChooseGradient(blockId, gradientId) ==
  /\ Screen = "form"
  /\ blockId \in {b.id : b \in Range(activeBlocks)}
  /\ gradientId \in {g.id : g \in blockGradients(blockId)}
  /\ evaluations' = handleBlockChange(evaluations, blockId, "gradientId", gradientId)
  /\ UNCHANGED <<selVars, navVars, outVars>>

\* a comment's checkbox; e.target.checked is the opposite of what is shown
ToggleComment(blockId, c) ==
  /\ Screen = "form"
  /\ blockId \in {b.id : b \in Range(activeBlocks)}
  /\ c \in {x.id : x \in blockComments(blockId)}
  /\ LET isSelected == c \in Range(currentEval(blockId).commentIds)
     IN evaluations' = handleBlockChange(evaluations, blockId, "commentIds",
                         newIds(currentEval(blockId).commentIds, c, ~isSelected))
  /\ UNCHANGED <<selVars, navVars, outVars>>

\* the Evaluator as constructed (useState initial values, lines 16-27)
InitSelect ==
  /\ InitSignedIn
  /\ fnArgs = NoArgs /\ fnResult = NoArgs

Navigate ==
  /\ \/ \E t \in Trimesters : SetTrimester(t)
     \/ ClearTrimester
     \/ \E id \in {x.id : x \in Range(data.students)} : SelectStudent(id)
     \/ ClearStudent
     \/ \E id \in {x.id : x \in Range(data.subjects)} : SelectSubject(id)
     \/ resetSubject
     \/ resetStudent
  /\ lastOp' = [op |-> "navigate", had |-> evaluations # << >>]
  /\ UNCHANGED histVars

Grade ==
  /\ \E b \in BlockIds : \E g \in {x.id : x \in Range(data.gradients)} :
       /\ ChooseGradient(b, g)
       /\ lastOp' = [op |-> "gradient", block |-> b, before |-> currentEval(b)]
  /\ UNCHANGED histVars

Toggle ==
  /\ \E b \in BlockIds : \E c \in {x.id : x \in Range(data.comments)} :
       /\ ToggleComment(b, c)
       /\ lastOp' = [op |-> IF c \in Range(currentEval(b).commentIds)
                            THEN "uncheck" ELSE "check",
                     block |-> b, comment |-> c, before |-> currentEval(b)]
  /\ UNCHANGED histVars

NextSelect == Navigate \/ Grade \/ Toggle

SpecSelect == InitSelect /\ [][NextSelect]_vars

\* ---- SpecData: the rubric operations of the settings screen, overlapping
\* a row as the settings forms build it
NewRow(table, owner) ==
  CASE table = "blocks" -> [subject_id |-> owner, name |-> "Nou bloc", trimesters |-> {"1", "2", "3"}]
    [] table = "gradients" -> [block_id |-> owner, tag |-> "N", text |-> "New gradient"]
    [] table = "comments" -> [block_id |-> owner, tag |-> "nou", text |-> "New comment"]

\* the id sets the delete buttons are used with: one row, or all rows selected
DeleteChoices(ids) == {{i} : i \in ids} \cup {ids}

\* the backend may answer with an error
Answers == IF db.refused < MaxRefused THEN BOOLEAN ELSE {FALSE}

\* BlocksTab: activeBlocks, the blocks of the subject chosen in its selector
tabBlocks == tabBlocksOf(data, blocksTab)

InitData ==
  /\ InitSignedIn
  /\ fnArgs = NoArgs /\ fnResult = NoArgs

\* the settings button of the navigation bar
OpenSettings ==
  /\ setCurrentView("settings")
  /\ UNCHANGED histVars

\* the trash buttons and 'delete selected' of SubjectsTab (Settings.tsx, lines 516-519)
DeleteSubjects ==
  /\ currentView = "settings"
  /\ \E ids \in DeleteChoices(IdsOf(data.subjects)) : SubjectsDeleteClick(ids)
  /\ UNCHANGED histVars

\* the trash buttons and 'delete selected' of BlocksTab (lines 818-822, 961)
DeleteBlocks ==
  /\ currentView = "settings"
  /\ \E ids \in DeleteChoices(tabBlocks) : BlocksDeleteClick(ids)
  /\ UNCHANGED histVars

\* addBlock for the subject chosen in the selector (lines 747-755)
AddBlock ==
  /\ currentView = "settings"
  /\ CreateClick("blocks", NewRow("blocks", blocksTab.selectedSubjectId))
  /\ UNCHANGED histVars

\* the add forms of a block's gradients and comments (lines 612-626)
AddContent ==
  /\ currentView = "settings"
  /\ \E t \in {"gradients", "comments"} : \E b \in tabBlocks :
       CreateClick(t, NewRow(t, b))
  /\ UNCHANGED histVars

\* the backend answers a call in progress
DataAnswer ==
  /\ \E op \in BagToSet(dataOps.running) : \E error \in Answers :
       \/ CreateResolve(op, error)
       \/ SubjectsDeleteStep(op, error)
       \/ BlocksDeleteStep(op, error)
  /\ UNCHANGED histVars

NextData ==
  OpenSettings \/ DeleteSubjects \/ DeleteBlocks \/ AddBlock \/ AddContent \/ DataAnswer

SpecData == InitData /\ [][NextData]_vars

\* ---- SpecBlocksTab: the block operations of the settings screen
BlockNames == {"", "Calcul"}

\* the lines of an imported file, split into fields; the second field a
\* sequence of characters
CsvRows ==
  {<<"">>, <<"Mesura">>, <<"Mesura", << >> >>, <<"Mesura", <<"1", " ", "2">> >>,
   <<"Mesura", <<"t", "4">> >>}
CsvContents == {<<r>> : r \in CsvRows} \cup {<<r, q>> : r \in CsvRows, q \in CsvRows}

\* the blocks ticked in the list, in the order they were ticked
Selections ==
  {<<b>> : b \in tabBlocks} \cup {p \in tabBlocks \X tabBlocks : p[1] # p[2]}

\* the trimesters the bulk buttons assign (lines 905-908)
BulkTrims == {{t} : t \in Trimesters} \cup {{"1", "2", "3"}}

InitBlocksTab ==
  /\ InitSignedIn
  /\ fnArgs = NoArgs /\ fnResult = NoArgs

OpenBlocksTab ==
  /\ setCurrentView("settings")
  /\ UNCHANGED histVars

TypeBlockName ==
  /\ currentView = "settings"
  /\ \E name \in BlockNames : setNewBlockName(name)
  /\ UNCHANGED histVars

CheckNewBlockTrim ==
  /\ currentView = "settings"
  /\ \E t \in Trimesters : setNewBlockTrims(t)
  /\ UNCHANGED histVars

ClickAddBlock ==
  /\ currentView = "settings"
  /\ dataOps.made < MaxTabCalls
  /\ addBlock
  /\ UNCHANGED histVars

ImportBlocks ==
  /\ currentView = "settings"
  /\ dataOps.made < MaxTabCalls
  /\ \E content \in CsvContents : handleImportBlocks(content)
  /\ UNCHANGED histVars

ClickEdit ==
  /\ currentView = "settings"
  /\ \E b \in Range(data.blocks) : startEdit(b)
  /\ UNCHANGED histVars

CheckEditTrim ==
  /\ currentView = "settings"
  /\ \E t \in Trimesters : setEditFormTrims(t)
  /\ UNCHANGED histVars

ClickCancelEdit ==
  /\ currentView = "settings"
  /\ cancelEdit
  /\ UNCHANGED histVars

ClickSaveEdit ==
  /\ currentView = "settings"
  /\ dataOps.made < MaxTabCalls
  /\ saveEdit
  /\ UNCHANGED histVars

ClickBulkSetTrims ==
  /\ currentView = "settings"
  /\ dataOps.made < MaxTabCalls
  /\ \E selectedIds \in Selections : \E trims \in BulkTrims : bulkSetTrims(selectedIds, trims)
  /\ UNCHANGED histVars

\* the backend answers a call in progress
BlocksTabAnswer ==
  /\ \E op \in BagToSet(dataOps.running) : \E error \in Answers :
       \/ addBlockResolve(op, error)
       \/ handleImportBlocksResolve(op, error)
       \/ saveEditResolve(op, error)
       \/ bulkSetTrimsResolve(op, error)
  /\ UNCHANGED histVars

NextBlocksTab ==
  \/ OpenBlocksTab \/ TypeBlockName \/ CheckNewBlockTrim \/ ClickAddBlock \/ ImportBlocks
  \/ ClickEdit \/ CheckEditTrim \/ ClickCancelEdit \/ ClickSaveEdit \/ ClickBulkSetTrims
  \/ BlocksTabAnswer

SpecBlocksTab == InitBlocksTab /\ [][NextBlocksTab]_vars

\* ---- SpecAbandon: report requests the user walks away from
AbandonGenerate(s) ==
  /\ invocations < MaxInvocations
  /\ currentView = "evaluator"
  /\ ClickGenerate(s)
  /\ invocations' = invocations + 1
  /\ UNCHANGED <<admittedToday, persistFailures>>

\* the 'change subject' button of the form's header
AbandonSubject ==
  /\ currentView = "evaluator"
  /\ resetSubject
  /\ UNCHANGED <<lastOp, histVars>>

\* the 'change student' button of the form's header
AbandonStudent ==
  /\ currentView = "evaluator"
  /\ resetStudent
  /\ UNCHANGED <<lastOp, histVars>>

\* the navigation bar: to the settings and back
ChangeView ==
  /\ \E view \in {"evaluator", "settings"} : setCurrentView(view)
  /\ UNCHANGED histVars

NextAbandon ==
  \/ \E s \in 1..MaxConcurrent : AbandonGenerate(s)
  \/ AbandonSubject \/ AbandonStudent \/ ChangeView
  \/ \E s \in 1..MaxConcurrent : \E response \in Responses \cup {NoKeyError} :
        Generated(s, response)
  \/ \E s \in 1..MaxConcurrent : \E updateError \in BOOLEAN : Persisted(s, updateError)
  \/ \E s \in 1..MaxConcurrent : Rejected(s)

SpecAbandon == InitForm /\ [][NextAbandon]_vars

\* ---- SpecProfile: report requests, then the profile edited in the settings
ProfileForms ==
  [name : {"Marta", "Maria"}, course : {"3r"}, gender : {"mestra", "mestre"}]

PromoCodes == {"loma", " Loma ", "LOMA", " proves", ""}

UpdateOutcomes == {"ok", "error", "throw"}

ProfileGenerate(s) ==
  /\ invocations < MaxInvocations
  /\ currentView = "evaluator"
  /\ ClickGenerate(s)
  /\ invocations' = invocations + 1
  /\ UNCHANGED <<admittedToday, persistFailures>>

SaveProfile ==
  /\ currentView = "settings"
  /\ \E o \in 1..MaxProfileOps : \E form \in ProfileForms : handleSave(o, form)
  /\ UNCHANGED histVars

EnterPromoCode ==
  /\ currentView = "settings"
  /\ \E o \in 1..MaxProfileOps : \E promoCode \in PromoCodes : handlePromoCode(o, promoCode)
  /\ UNCHANGED histVars

Pay ==
  /\ currentView = "settings"
  /\ \E o \in 1..MaxProfileOps : handlePaymentSimulation(o)
  /\ UNCHANGED histVars

ProfileAnswer ==
  /\ \E o \in 1..MaxProfileOps : \E outcome \in UpdateOutcomes : ProfileUpdateResolve(o, outcome)
  /\ UNCHANGED histVars

NextProfile ==
  \/ \E s \in 1..MaxConcurrent : ProfileGenerate(s)
  \/ \E s \in 1..MaxConcurrent : \E response \in Responses \cup {NoKeyError} :
        Generated(s, response)
  \/ \E s \in 1..MaxConcurrent : \E updateError \in BOOLEAN : Persisted(s, updateError)
  \/ \E s \in 1..MaxConcurrent : Rejected(s)
  \/ ChangeView \/ SaveProfile \/ EnterPromoCode \/ Pay \/ ProfileAnswer

SpecProfile == InitForm /\ [][NextProfile]_vars

\* ---- SpecRace: blocks deleted in the settings, the answers arriving while
\* the Evaluator is in use
RaceDeleteBlocks ==
  /\ currentView = "settings"
  /\ dataOps.made < MaxRaceCalls
  /\ \E ids \in DeleteChoices(tabBlocks) : BlocksDeleteClick(ids)
  /\ UNCHANGED histVars

\* the teacher evaluates student st1 in the second trimester
RaceNavigate ==
  /\ currentView = "evaluator"
  /\ \/ SetTrimester("2")
     \/ SelectStudent("st1")
     \/ \E id \in {x.id : x \in Range(data.subjects)} : SelectSubject(id)
     \/ resetSubject
  /\ UNCHANGED <<lastOp, histVars>>

RaceGrade ==
  /\ currentView = "evaluator"
  /\ \E b \in BlockIds : \E g \in {x.id : x \in Range(data.gradients)} : ChooseGradient(b, g)
  /\ UNCHANGED <<lastOp, histVars>>

\* the checkboxes used: the first comment of each block
RaceComments == {"c1", "c5"}

RaceToggle ==
  /\ currentView = "evaluator"
  /\ \E b \in BlockIds : \E c \in RaceComments : ToggleComment(b, c)
  /\ UNCHANGED <<lastOp, histVars>>

RaceAnswer ==
  /\ \E op \in BagToSet(dataOps.running) : \E error \in Answers : BlocksDeleteStep(op, error)
  /\ UNCHANGED histVars

NextRace == ChangeView \/ RaceDeleteBlocks \/ RaceAnswer \/ RaceNavigate \/ RaceGrade \/ RaceToggle

SpecRace == InitSelect /\ [][NextRace]_vars

\* ---- SpecAuth: the session of the browser: notifications of the auth client,
\* ---- the profile and data fetches they start, logout
AuthEvent ==
  /\ account.events < MaxAuthEvents
  /\ \E u \in Accounts \cup {NoId} : onAuthStateChange(u)
  /\ UNCHANGED histVars

ProfileFetched == (\E u \in Accounts : fetchUserProfileResolve(u)) /\ UNCHANGED histVars

Logout == logout /\ UNCHANGED histVars

DataLoaded == (\E u \in Accounts : loadAppDataResolve(u)) /\ UNCHANGED histVars

NextAuth == AuthEvent \/ ProfileFetched \/ Logout \/ DataLoaded

SpecAuth == InitForm /\ [][NextAuth]_vars


\* ---- SpecOverlap: the generate button clicked again while a request is loading
InitOverlap ==
  /\ data = AppData0
  /\ InitSettings
  /\ reqs = [s \in 1..MaxOverlap |-> IdleReq]
  /\ invocations = 0 /\ admittedToday = 0 /\ persistFailures = 0
  /\ generatedPrompt = << >> /\ geminiReport = << >>
  /\ loading = FALSE /\ showLimitModal = FALSE
  /\ lastOp = NoOp /\ fnArgs = NoArgs /\ fnResult = NoArgs
  /\ today = 1
  /\ dbProfile \in ProfileRows
  /\ envApiKey \in (IF dbProfile.gemini_api_key = Undefined
                    THEN {Undefined, "envKey"} ELSE {Undefined})
  /\ profile = ProfileOfRow(dbProfile, today)
  /\ trimester = "2" /\ selectedStudentId = "st1" /\ selectedSubjectId = "su1"
  /\ evaluations \in SomeEvaluations

OverlapGenerate(s) ==
  /\ invocations < MaxOverlap
  /\ ClickGenerate(s)
  /\ invocations' = invocations + 1
  /\ UNCHANGED <<admittedToday, persistFailures>>

NextOverlap ==
  \/ \E s \in 1..MaxOverlap : OverlapGenerate(s)
  \/ \E s \in 1..MaxOverlap : \E response \in Responses \cup {NoKeyError} :
        Generated(s, response)
  \/ \E s \in 1..MaxOverlap : \E updateError \in BOOLEAN : Persisted(s, updateError)
  \/ \E s \in 1..MaxOverlap : Rejected(s)

SpecOverlap == InitOverlap /\ [][NextOverlap]_vars

\* ---- SpecReselect: the subject or the student changed while a request is
\* outstanding, and another one chosen
Reselect ==
  /\ currentView = "evaluator"
  /\ \/ \E id \in {x.id : x \in Range(data.students)} : SelectStudent(id)
     \/ \E id \in {x.id : x \in Range(data.subjects)} : SelectSubject(id)
  /\ UNCHANGED <<lastOp, histVars>>

NextReselect ==
  \/ \E s \in 1..MaxConcurrent : AbandonGenerate(s)
  \/ AbandonSubject \/ AbandonStudent \/ Reselect
  \/ \E s \in 1..MaxConcurrent : \E response \in Responses \cup {NoKeyError} :
        Generated(s, response)
  \/ \E s \in 1..MaxConcurrent : \E updateError \in BOOLEAN : Persisted(s, updateError)
  \/ \E s \in 1..MaxConcurrent : Rejected(s)

SpecReselect == InitForm /\ [][NextReselect]_vars

\* ================================================================ claims
Slots == 1..MaxConcurrent

\* non-premium, usage dated the given day, count at or over the limit
AtLimit(user, day) ==
  ~user.isPremium /\ user.dailyUsage.date = day /\ user.dailyUsage.count >= 5

\* the count that holds for the given day
CountFor(user, day) == IF user.dailyUsage.date = day THEN user.dailyUsage.count ELSE 0

\* this step starts an invocation in position s
Starts(s) == reqs'[s] # reqs[s] /\ ~Outstanding(reqs[s])

\* this step ends the invocation in position s by the answer to its profile update
Completes(s) == reqs[s].pc = "awaitUpdate" /\ reqs'[s].pc = "done"

\* every b in calls comes after an a
Before(calls, a, b) ==
  \A j \in 1..Len(calls) : calls[j] = b => \E i \in 1..(j-1) : calls[i] = a

\* C1: an invocation made with a profile at the limit (non-premium, usage dated
\* today, count >= 5) shows the limit modal and returns at once; it calls
\* neither generatePrompt nor fetchReportFromGemini, then or later.
C1_RefusedMakesNoCall ==
  /\ [](\A s \in Slots :
          reqs[s].pc # "idle" /\ AtLimit(reqs[s].user, reqs[s].checkDay)
          => /\ reqs[s].pc = "done"
             /\ reqs[s].calls = <<"checkDailyLimit">>)
  /\ [][\A s \in Slots :
          Starts(s) /\ AtLimit(profile, today)
          => /\ showLimitModal'
             /\ UNCHANGED <<generatedPrompt, geminiReport, loading>>]_vars

C1_Witness ==
  \E s \in Slots : /\ reqs[s].pc = "done"
                   /\ AtLimit(reqs[s].user, reqs[s].checkDay)
                   /\ reqs[s].calls = <<"checkDailyLimit">>
                   /\ showLimitModal

\* the generation did not produce a report text
Failed(r) == r.response.kind # "none" /\ ~IsSuccess(r.response)

\* C2: an invocation whose generation failed (API error, empty response, no
\* credential) does not call incrementDailyUsage or onUpdateUser, and its
\* completion leaves the profile's dailyUsage as it was.
C2_FailureSpendsNoQuota ==
  /\ [](\A s \in Slots :
          Failed(reqs[s]) => /\ "incrementDailyUsage" \notin Range(reqs[s].calls)
                             /\ "onUpdateUser" \notin Range(reqs[s].calls))
  /\ [][\A s \in Slots :
          Completes(s) /\ Failed(reqs[s])
          => profile'.dailyUsage = profile.dailyUsage]_vars

\* C3: an invocation whose generation succeeded applies incrementDailyUsage
\* once and calls onUpdateUser once, with the advanced dailyUsage; the number
\* of usage recordings equals the number of successful generations.
C3_OneRecordingPerSuccess ==
  /\ \A s \in Slots :
       reqs[s].response.kind # "none" /\ IsSuccess(reqs[s].response)
       => /\ Occurrences(reqs[s].calls, "incrementDailyUsage") = 1
          /\ Occurrences(reqs[s].calls, "onUpdateUser") = 1
          /\ reqs[s].updateObject.daily_usage_date = reqs[s].updatedUser.dailyUsage.date
          /\ reqs[s].updateObject.daily_usage_count = reqs[s].updatedUser.dailyUsage.count
          /\ (~reqs[s].user.isPremium =>
                reqs[s].updatedUser.dailyUsage =
                  [date |-> reqs[s].recordDay,
                   count |-> CountFor(reqs[s].user, reqs[s].recordDay) + 1])
  /\ Cardinality({s \in Slots : "incrementDailyUsage" \in Range(reqs[s].calls)})
       = Cardinality({s \in Slots : reqs[s].response.kind # "none"
                                    /\ IsSuccess(reqs[s].response)})

\* C4: within one invocation the calls come in the order checkDailyLimit,
\* generatePrompt, fetchReportFromGemini, incrementDailyUsage, each at most
\* once; the generation call is made only for a profile the check admitted,
\* and usage is recorded only after the generation call has returned.
C4_CallOrder ==
  \A s \in Slots :
    LET c == reqs[s].calls IN
    /\ \A n \in Range(c) : Occurrences(c, n) = 1
    /\ Before(c, "checkDailyLimit", "generatePrompt")
    /\ Before(c, "generatePrompt", "fetchReportFromGemini")
    /\ Before(c, "fetchReportFromGemini", "generateContent")
    /\ Before(c, "fetchReportFromGemini", "fetchReportFromGemini:return")
    /\ Before(c, "fetchReportFromGemini:return", "incrementDailyUsage")
    /\ Before(c, "incrementDailyUsage", "onUpdateUser")
    /\ ("fetchReportFromGemini" \in Range(c) =>
          ~AtLimit(reqs[s].user, reqs[s].checkDay))

C4_Witness ==
  \E s \in Slots : /\ reqs[s].pc = "done"
                   /\ reqs[s].external
                   /\ reqs[s].calls = <<"checkDailyLimit", "generatePrompt",
                                        "fetchReportFromGemini", "generateContent",
                                        "fetchReportFromGemini:return",
                                        "incrementDailyUsage", "onUpdateUser">>

\* C7 as claimed: requests one at a time on one day by a non-premium account;
\* every successful generation leaves the profile with today's count raised by
\* one, a profile at the limit is refused, and no more than 5 requests are
\* admitted on one day.
C7_AsClaimed ==
  /\ [][(Completes(1) /\ IsSuccess(reqs[1].response) /\ ~reqs[1].user.isPremium
         /\ reqs[1].checkDay = today)
        => profile'.dailyUsage =
             [date |-> today, count |-> CountFor(reqs[1].user, today) + 1]]_vars
  /\ [][Starts(1) /\ AtLimit(profile, today) => ~reqs'[1].admitted]_vars
  /\ [](~profile.isPremium => admittedToday <= 5)

\* C7 amended: the same, for the generations whose profile update the backend
\* accepted, and for the days on which no profile update failed.
C7_SequentialQuota ==
  /\ [][(Completes(1) /\ IsSuccess(reqs[1].response) /\ ~reqs[1].user.isPremium
         /\ reqs[1].checkDay = today /\ reqs'[1].persisted = "ok")
        => profile'.dailyUsage =
             [date |-> today, count |-> CountFor(reqs[1].user, today) + 1]]_vars
  /\ [][Starts(1) /\ AtLimit(profile, today) => ~reqs'[1].admitted]_vars
  /\ [](~profile.isPremium /\ persistFailures = 0 => admittedToday <= 5)

\* five requests admitted today, the profile holds count 5, the sixth is refused
C7_Witness ==
  /\ ~profile.isPremium
  /\ persistFailures = 0
  /\ admittedToday = 5
  /\ profile.dailyUsage = [date |-> today, count |-> 5]
  /\ reqs[1].pc = "done" /\ ~reqs[1].admitted /\ reqs[1].checkDay = today


\* C5: checkDailyLimit is true for a premium profile, true when the usage is
\* dated another day, true when it is dated today with count < 5, false
\* exactly for a non-premium profile dated today with count >= 5; the profile
\* is left as it was.
C5_CheckDailyLimit ==
  fnResult.fn = "checkDailyLimit" =>
    LET u == fnArgs.user
        d == fnArgs.now
    IN /\ (u.isPremium => fnResult.ret)
       /\ (u.dailyUsage.date # d => fnResult.ret)
       /\ (u.dailyUsage.date = d /\ u.dailyUsage.count < 5 => fnResult.ret)
       /\ (~fnResult.ret <=>
             (~u.isPremium /\ u.dailyUsage.date = d /\ u.dailyUsage.count >= 5))
       /\ fnResult.user = u

\* refused at exactly 5 today
C5_Witness ==
  /\ fnResult.fn = "checkDailyLimit"
  /\ ~fnResult.ret
  /\ fnArgs.user.dailyUsage = [date |-> fnArgs.now, count |-> 5]

\* C6: incrementDailyUsage returns a premium profile unchanged; for a
\* non-premium profile the result's dailyUsage is {today, 1} when the stored
\* date is another day and {today, count + 1} when it is today; the other
\* fields are those of the input, and the input is not changed.
C6_IncrementDailyUsage ==
  fnResult.fn = "incrementDailyUsage" =>
    LET u == fnArgs.user
        d == fnArgs.now
        r == fnResult.ret
    IN /\ (u.isPremium => r = u)
       /\ (~u.isPremium /\ u.dailyUsage.date # d =>
             r.dailyUsage = [date |-> d, count |-> 1])
       /\ (~u.isPremium /\ u.dailyUsage.date = d =>
             r.dailyUsage = [date |-> d, count |-> u.dailyUsage.count + 1])
       /\ DOMAIN r = DOMAIN u
       /\ \A f \in DOMAIN u \ {"dailyUsage"} : r[f] = u[f]
       /\ fnResult.user = u

\* the rollover of a profile at 5 on an earlier day
C6_Witness ==
  /\ fnResult.fn = "incrementDailyUsage"
  /\ ~fnArgs.user.isPremium
  /\ fnArgs.user.dailyUsage.date # fnArgs.now
  /\ fnArgs.user.dailyUsage.count = 5
  /\ fnResult.ret.dailyUsage = [date |-> fnArgs.now, count |-> 1]

\* the positions of the prompt at which a block paragraph starts
ParagraphStarts(p) == {i \in 1..Len(p) : p[i] = "- Bloc: "}

\* the k-th smallest element of a set of numbers
Nth(S, k) == CHOOSE i \in S : Cardinality({j \in S : j < i}) = k - 1

\* the given blocks that have an entry with a gradient, in the given order
Evaluated(blocks, ev) ==
  SelectSeq(blocks, LAMBDA b : b.id \in DOMAIN ev /\ ev[b.id].gradientId # Null)

\* C9: a given block with no entry in the selection, or with an entry whose
\* gradientId is null, has no paragraph in the prompt, whatever comment ids the
\* entry holds; a prompt of such blocks only has no paragraph at all.
C9_UnevaluatedBlockSkipped ==
  fnResult.fn = "generatePrompt" =>
    LET p == fnResult.ret
        bl == fnArgs.blocks
        ev == fnArgs.evaluations
        Skipped(b) == b.id \notin DOMAIN ev \/ ev[b.id].gradientId = Null
    IN /\ \A k \in 1..Len(bl) :
            Skipped(bl[k]) => \A i \in ParagraphStarts(p) : p[i + 1] # bl[k].name
       /\ ((\A k \in 1..Len(bl) : Skipped(bl[k])) => ParagraphStarts(p) = {})

\* a block with comments chosen and no gradient, next to an evaluated block
C9_Witness ==
  /\ fnResult.fn = "generatePrompt"
  /\ \E k \in 1..Len(fnArgs.blocks) :
       /\ fnArgs.blocks[k].id \in DOMAIN fnArgs.evaluations
       /\ fnArgs.evaluations[fnArgs.blocks[k].id].gradientId = Null
       /\ fnArgs.evaluations[fnArgs.blocks[k].id].commentIds # << >>
  /\ \E k \in 1..Len(fnArgs.blocks) :
       /\ fnArgs.blocks[k].id \notin DOMAIN fnArgs.evaluations
  /\ ParagraphStarts(fnResult.ret) # {}

\* C10: the prompt has one paragraph for each given block with a selected
\* gradient and no other, in the order of the block list; the paragraph
\* carries the block's name and, after 'Comentaris: ', the texts of the
\* selected comments in the order of commentIds, separated by '; '.
C10_ParagraphPerEvaluatedBlock ==
  fnResult.fn = "generatePrompt" =>
    LET p == fnResult.ret
        ev == fnArgs.evaluations
        E == Evaluated(fnArgs.blocks, ev)
        ps == ParagraphStarts(p)
        bank == Range(AppData0.comments)
        TextOf(id) == (CHOOSE c \in bank : c.id = id).text
    IN /\ Cardinality(ps) = Len(E)
       /\ \A k \in 1..Len(E) :
            LET i == Nth(ps, k)
                ids == SelectSeq(ev[E[k].id].commentIds,
                                 LAMBDA id : \E c \in bank : c.id = id)
                n == Len(ids)
            IN /\ p[i + 1] = E[k].name
               /\ p[i + 6] = "  Comentaris: "
               /\ \A j \in 1..n : p[i + 5 + 2 * j] = TextOf(ids[j])
               /\ \A j \in 1..(n - 1) : p[i + 6 + 2 * j] = "; "
               /\ p[i + 6 + (IF n = 0 THEN 1 ELSE 2 * n)] = "\n\n"

\* two evaluated blocks, one with two comments chosen against the bank's order
C10_Witness ==
  /\ fnResult.fn = "generatePrompt"
  /\ Len(Evaluated(fnArgs.blocks, fnArgs.evaluations)) = 2
  /\ Len(fnArgs.blocks) > 2
  /\ \E b \in Range(Evaluated(fnArgs.blocks, fnArgs.evaluations)) :
       fnArgs.evaluations[b.id].commentIds = <<"c2", "c1">>


\* C8: through the checkboxes of the form an entry never holds more than
\* three comment ids, and checking a comment of an entry that holds three
\* leaves the entry's list as it was.
C8_AtMostThreeComments ==
  /\ \A b \in DOMAIN evaluations : Len(evaluations[b].commentIds) <= 3
  /\ (lastOp.op = "check" /\ Len(lastOp.before.commentIds) = 3 =>
        evaluations[lastOp.block].commentIds = lastOp.before.commentIds)

\* a fourth comment was checked
C8_Witness ==
  /\ lastOp.op = "check"
  /\ Len(lastOp.before.commentIds) = 3
  /\ lastOp.comment \notin Range(lastOp.before.commentIds)
  /\ lastOp.block \in DOMAIN evaluations


\* the comment texts of the paragraph that starts at i: the pieces after
\* '  Comentaris: ' up to the paragraph's closing blank line
CommentSegment(p, i) ==
  LET end == CHOOSE j \in (i + 7)..Len(p) :
               p[j] = "\n\n" /\ \A m \in (i + 7)..(j - 1) : p[m] # "\n\n"
  IN SubSeq(p, i + 7, end - 1)

\* C11: a selection with an id that is in none of the given collections does
\* not keep generatePrompt from returning: the block's paragraph is there, a
\* gradientId matching no gradient is rendered as 'Sense avaluacio', and a
\* comment id matching no comment is left out while the others keep their order.
C11_DanglingReferences ==
  /\ (fnArgs.fn = "prompt" /\ fnResult = NoArgs => ENABLED CallGeneratePrompt)
  /\ (fnResult.fn = "generatePrompt" =>
        LET p == fnResult.ret
            ev == fnArgs.evaluations
            E == Evaluated(fnArgs.blocks, ev)
            ps == ParagraphStarts(p)
            known == {g.id : g \in Range(AppData0.gradients)}
            bank == Range(AppData0.comments)
        IN /\ Cardinality(ps) = Len(E)
           /\ \A k \in 1..Len(E) :
                LET i == Nth(ps, k)
                    e == ev[E[k].id]
                    seg == CommentSegment(p, i)
                    found == SelectSeq(e.commentIds, LAMBDA id : \E c \in bank : c.id = id)
                IN /\ (e.gradientId \notin known => p[i + 4] = "Sense avaluacio")
                   /\ (e.gradientId \in known =>
                         \E g \in Range(AppData0.gradients) :
                           g.id = e.gradientId /\ p[i + 4] = g.text)
                   /\ Len(seg) = (IF found = << >> THEN 0 ELSE 2 * Len(found) - 1)
                   /\ \A j \in 1..Len(found) :
                        \E c \in bank : c.id = found[j] /\ seg[2 * j - 1] = c.text)

\* a block evaluated with a gradient that is gone and, between two comments, one that is gone
C11_Witness ==
  /\ fnResult.fn = "generatePrompt"
  /\ \E b \in Range(Evaluated(fnArgs.blocks, fnArgs.evaluations)) :
       /\ fnArgs.evaluations[b.id].gradientId = "gX"
       /\ fnArgs.evaluations[b.id].commentIds = <<"c2", "cX", "c1">>
  /\ "Sense avaluacio" \in Range(fnResult.ret)

Returns(op) == CopiesIn(op, dataOps'.running) < CopiesIn(op, dataOps.running)

\* the rows of seq that Keep accepts, the same before and after the step
Same(before, after, Keep(_)) == SelectSeq(after, Keep) = SelectSeq(before, Keep)

\* C13: when dataActions.subjects.delete(ids) returns, data holds none of the
\* subjects of ids, no block of one of them, and no gradient or comment of a
\* block of one of them; subjects, blocks, gradients and comments of the other
\* subjects are as before.
C13_SubjectCascade ==
  [][\A op \in BagToSet(dataOps.running) :
       op.kind = "subjects.delete" /\ op.pc = "deleteComments" /\ Returns(op)
       => LET gone == {b.id : b \in {x \in Range(data.blocks) : x.subject_id \in op.ids}}
          IN /\ IdsOf(data'.subjects) \cap op.ids = {}
             /\ \A b \in Range(data'.blocks) : b.subject_id \notin op.ids
             /\ \A g \in Range(data'.gradients) : g.block_id \notin gone
             /\ \A c \in Range(data'.comments) : c.block_id \notin gone
             /\ Same(data.subjects, data'.subjects, LAMBDA x : x.id \notin op.ids)
             /\ Same(data.blocks, data'.blocks, LAMBDA b : b.subject_id \notin op.ids)
             /\ Same(data.gradients, data'.gradients, LAMBDA g : g.block_id \notin gone)
             /\ Same(data.comments, data'.comments, LAMBDA c : c.block_id \notin gone)]_vars

\* no block of a subject that is not there, no gradient or comment of a block that is not there
NoOrphans(subjectIds, blocks, gradients, comments) ==
  /\ \A b \in blocks : b.subject_id \in subjectIds
  /\ \A g \in gradients : g.block_id \in {b.id : b \in blocks}
  /\ \A c \in comments : c.block_id \in {b.id : b \in blocks}

\* C14: in every state, during and after a subject deletion, with failing
\* backend calls and with creates in between, the in-memory data and the
\* backend tables hold no block of a missing subject and no gradient or
\* comment of a missing block.
C14_NoOrphans ==
  /\ NoOrphans(IdsOf(data.subjects), Range(data.blocks), Range(data.gradients),
               Range(data.comments))
  /\ NoOrphans({x.id : x \in db.subjects}, db.blocks, db.gradients, db.comments)

\* C15: when dataActions.blocks.delete(ids) returns, data holds none of the
\* blocks of ids and no gradient or comment of one of them; the other blocks
\* and the gradients and comments of the other blocks are as before.
C15_BlockCascade ==
  [][\A op \in BagToSet(dataOps.running) :
       op.kind = "blocks.delete" /\ op.pc = "deleteComments" /\ Returns(op)
       => /\ IdsOf(data'.blocks) \cap op.ids = {}
          /\ \A g \in Range(data'.gradients) : g.block_id \notin op.ids
          /\ \A c \in Range(data'.comments) : c.block_id \notin op.ids
          /\ Same(data.blocks, data'.blocks, LAMBDA b : b.id \notin op.ids)
          /\ Same(data.gradients, data'.gradients, LAMBDA g : g.block_id \notin op.ids)
          /\ Same(data.comments, data'.comments, LAMBDA c : c.block_id \notin op.ids)
          /\ data'.subjects = data.subjects]_vars

\* block b1 was deleted alone, with a backend call refused: its subject and
\* block b2 with its gradient and comment are still there
C15_Witness ==
  /\ dataOps.made > 0 /\ dataOps.running = EmptyBag
  /\ db.refused > 0
  /\ "su1" \in IdsOf(data.subjects)
  /\ "b1" \notin IdsOf(data.blocks) /\ "b2" \in IdsOf(data.blocks)
  /\ \A g \in Range(data.gradients) : g.block_id # "b1"
  /\ \A c \in Range(data.comments) : c.block_id # "b1"
  /\ "g3" \in IdsOf(data.gradients) /\ "c5" \in IdsOf(data.comments)


\* C16: after any sequence of block operations of the settings screen every
\* block held in the data has a non-empty trimesters set.
C16_NonEmptyTrimesters ==
  \A b \in Range(data.blocks) : b.trimesters # {}

\* C17: when the generation produced a report and the profile update that follows
\* fails (the backend answers with an error, or the call rejects), geminiReport
\* still holds the generated text when handleGenerate finishes.
C17_ReportKept ==
  [][\A s \in Slots :
       (/\ reqs[s].pc = "awaitUpdate" /\ reqs'[s].pc = "done"
        /\ IsSuccess(reqs[s].response)
        /\ reqs'[s].persisted \in {"error", "throw"})
       => geminiReport' = fetchReportFromGemini(reqs[s].response)]_vars

\* the request of position s is outstanding at the generation call and its
\* caller has left it: the subject or the student was reset, or the Evaluator
\* view was left
Abandoned(s) ==
  /\ reqs[s].pc = "awaitFetch"
  /\ (selectedSubjectId = NoId \/ selectedStudentId = NoId \/ ~reqs[s].mounted)

\* C18: when the generation call of an abandoned request returns, no usage is
\* recorded for it: incrementDailyUsage is not applied and no profile update
\* is issued, so no dailyUsage advance reaches the backend.
C18_AbandonedNotRecorded ==
  [][\A s \in Slots :
       Abandoned(s) =>
         /\ Occurrences(reqs'[s].calls, "incrementDailyUsage")
              = Occurrences(reqs[s].calls, "incrementDailyUsage")
         /\ Occurrences(reqs'[s].calls, "onUpdateUser")
              = Occurrences(reqs[s].calls, "onUpdateUser")
         /\ reqs'[s].pc # "awaitUpdate"]_vars

\* the usage the profile and its backend row carry
UsageOf(p, row) == <<p.dailyUsage, row.daily_usage_date, row.daily_usage_count>>

\* C19: dailyUsage is changed only by the usage recording that follows a
\* generation: profile edits, the promo-code and payment upgrades, and refused or
\* failed report requests leave it as it was, in the profile and in its row.
C19_UsageOnlyByRecording ==
  [][UsageOf(profile', dbProfile') # UsageOf(profile, dbProfile)
       => \E s \in Slots : /\ reqs[s].pc = "awaitUpdate" /\ reqs'[s].pc = "done"
                            /\ reqs'[s].persisted = "ok"
                            /\ IsSuccess(reqs[s].response)]_vars

\* C20: the selection belongs to the (student, subject, term) being evaluated:
\* while no subject is selected the selection map is empty, every entry it has
\* is for a block of the selected subject active in the selected term, and a
\* step that changes the student, the subject or the term leaves it empty.
C20_SelectionScoped ==
  /\ selectedSubjectId = NoId => evaluations = << >>
  /\ \A b \in DOMAIN evaluations : b \in {activeBlocks[i].id : i \in 1..Len(activeBlocks)}
  /\ lastOp.op = "navigate" => evaluations = << >>

\* a selection was made on the form and the subject was then left
C20_Witness ==
  /\ lastOp.op = "navigate" /\ lastOp.had
  /\ selectedStudentId # NoId /\ selectedSubjectId = NoId
  /\ evaluations = << >>

\* the entities of the given ids in a collection
GradientsOfId(id) == {g \in Range(data.gradients) : g.id = id}
CommentsOfId(id) == {c \in Range(data.comments) : c.id = id}

\* C21 as claimed: each non-null gradientId stored under a block id is the id
\* of a gradient of the data whose block_id is that block id, and each stored
\* comment id the id of a comment of the data whose block_id is that block id.
C21_AsClaimed ==
  \A b \in DOMAIN evaluations :
    /\ evaluations[b].gradientId # Null
         => \E g \in GradientsOfId(evaluations[b].gradientId) : g.block_id = b
    /\ \A i \in 1..Len(evaluations[b].commentIds) :
         \E c \in CommentsOfId(evaluations[b].commentIds[i]) : c.block_id = b

\* C21: each non-null gradientId stored under a block id is never the id of a
\* gradient of another block, and each stored comment id never the id of a
\* comment of another block; the entity may have been deleted since.
C21_SelectionOfOwnBlock ==
  \A b \in DOMAIN evaluations :
    /\ evaluations[b].gradientId # Null
         => \A g \in GradientsOfId(evaluations[b].gradientId) : g.block_id = b
    /\ \A i \in 1..Len(evaluations[b].commentIds) :
         \A c \in CommentsOfId(evaluations[b].commentIds[i]) : c.block_id = b

\* a block holds a gradient and a comment of its own, another block a gradient
\* whose entity was deleted after it was chosen
C21_Witness ==
  /\ \E b \in DOMAIN evaluations :
       /\ evaluations[b].gradientId # Null
       /\ \E g \in GradientsOfId(evaluations[b].gradientId) : g.block_id = b
       /\ evaluations[b].commentIds # << >>
       /\ \E c \in CommentsOfId(evaluations[b].commentIds[1]) : c.block_id = b
  /\ \E b \in DOMAIN evaluations :
       evaluations[b].gradientId # Null /\ GradientsOfId(evaluations[b].gradientId) = {}

\* C22: the profile is refetched only when the account id changes: an auth-state
\* change notification carrying the id of the profile currently held starts no
\* call of fetchUserProfile.
C22_NoRefetchForSameId ==
  [][(/\ account'.events = account.events + 1
      /\ profile.id # NoId
      /\ account'.user = profile.id)
       => /\ account'.fetches = account.fetches
          /\ account'.fetching = account.fetching]_vars

\* C23: a failed generation reaches the caller as a failure, not as a returned
\* report: the call of fetchReportFromGemini does not return normally to
\* handleGenerate, what is shown carries the underlying message, and
\* generatedPrompt still holds the prompt compiled for the request.
C23_FailureReported ==
  [][\A s \in Slots :
       (reqs[s].pc = "awaitFetch" /\ reqs'[s].pc # "awaitFetch" /\ Failed(reqs'[s]))
       => /\ "fetchReportFromGemini:return" \notin Range(reqs'[s].calls)
          /\ (reqs'[s].response.kind = "error"
                => reqs'[s].response.message \in Range(geminiReport'))
          /\ generatedPrompt' = reqs[s].prompt]_vars

\* what does hold of a failed generation: the message is shown where the report
\* would be, and the prompt is kept
FailureShownWithPrompt ==
  [][\A s \in Slots :
       (reqs[s].pc = "awaitFetch" /\ reqs'[s].pc # "awaitFetch" /\ Failed(reqs'[s]))
       => /\ (reqs'[s].response.kind = "error"
                => reqs'[s].response.message \in Range(geminiReport'))
          /\ generatedPrompt' = reqs[s].prompt /\ generatedPrompt' # << >>]_vars

\* C24: a handleGenerate invocation refused by the quota check changes nothing but
\* the quota signal: showLimitModal is set, and the profile and its row, the
\* selection, loading, the prompt and the report shown before all stay as they
\* were; the report box (where generation failures are shown) is not used.
C24_RefusalChangesOnlyModal ==
  [][(invocations' = invocations + 1 /\ ~checkDailyLimit(profile, today))
       => /\ showLimitModal'
          /\ UNCHANGED <<profile, dbProfile, data, navVars, evaluations, loading,
                         generatedPrompt, geminiReport, today>>]_vars

\* a refused invocation made while the report of an earlier request is on display
C24_Witness ==
  /\ showLimitModal
  /\ \E s \in Slots : reqs[s].pc = "done" /\ ~reqs[s].admitted
                       /\ reqs[s].calls = <<"checkDailyLimit">>
  /\ geminiReport = <<"Informe de l'alumne">>
  /\ generatedPrompt # << >>
  /\ ~loading

\* the fields of the profile and of its row other than the usage
ProfileSettings(p, row) ==
  <<p.name, p.currentCourse, p.gender, p.isPremium, p.geminiApiKey,
    row.first_name, row.current_course, row.gender, row.is_premium, row.gemini_api_key>>

\* C25: the recording of usage that ends a report request changes only
\* dailyUsage: name, course, gender, API key and isPremium of the profile and of
\* its row are left as they are, also when they were changed while the request
\* was outstanding; isPremium is never taken back from true to false.
C25_RecordingWritesOnlyUsage ==
  [][\A s \in Slots :
       Completes(s) => /\ ProfileSettings(profile', dbProfile')
                          = ProfileSettings(profile, dbProfile)
                       /\ (profile.isPremium => profile'.isPremium)
                       /\ (dbProfile.is_premium => dbProfile'.is_premium)]_vars

\* C26: two invocations of a non-premium account that overlapped (both were
\* admitted on the same profile snapshot), both generated a report on the same
\* day and both had their usage persisted: the persisted count is 2 above the
\* count the snapshot had for that day.
C26_OverlappingBothCounted ==
  \A s, t \in DOMAIN reqs :
    (/\ s # t
     /\ reqs[s].pc = "done" /\ reqs[t].pc = "done"
     /\ reqs[s].admitted /\ reqs[t].admitted
     /\ reqs[s].user = reqs[t].user /\ ~reqs[s].user.isPremium
     /\ IsSuccess(reqs[s].response) /\ IsSuccess(reqs[t].response)
     /\ reqs[s].persisted = "ok" /\ reqs[t].persisted = "ok")
    => /\ dbProfile.daily_usage_count = CountFor(reqs[s].user, today) + 2
       /\ profile.dailyUsage.count = CountFor(reqs[s].user, today) + 2

\* the selection is complete and the prompt opens as a prompt compiled for the
\* selected student, subject and trimester does
OfCurrentSelection(prompt) ==
  /\ selectedStudent # 0 /\ selectedSubject # 0 /\ trimester # NoId
  /\ LET opening == PromptOpening(data.students[selectedStudent],
                                  data.subjects[selectedSubject], trimester,
                                  profile.gender)
     IN Len(prompt) >= Len(opening) /\ SubSeq(prompt, 1, Len(opening)) = opening

\* C27: the prompt and the report held by the Evaluator belong to the selected
\* (student, subject, trimester): a non-empty generatedPrompt was compiled for
\* it, and a request that returns puts its report (or its error) in geminiReport
\* only if its prompt was compiled for it; there is no report without a
\* complete selection.
C27_OutputOfCurrentSelection ==
  /\ [](generatedPrompt # << >> => OfCurrentSelection(generatedPrompt))
  /\ [](geminiReport # << >> =>
          selectedStudent # 0 /\ selectedSubject # 0 /\ trimester # NoId)
  /\ [][\A s \in Slots :
          (Outstanding(reqs[s]) /\ reqs'[s] # reqs[s]
           /\ geminiReport' # geminiReport /\ geminiReport' # << >>)
          => OfCurrentSelection(reqs[s].prompt)']_vars

\* a data fetch is started only on a change of the account id last loaded
LoadedOncePerUserId ==
  [][account'.loads # account.loads
       => /\ account'.loads = account.loads + 1
          /\ account'.user # account.lastLoadedUserId
          /\ account'.lastLoadedUserId = account'.user]_vars

\* C28: while a profile is signed in, data that is not null was fetched for that
\* profile's account id (a fetch started for another account, or before a
\* logout, never becomes the data held), and a data fetch is started only when
\* the account id differs from the one last loaded.
C28_DataOfSignedInAccount ==
  /\ [](profile.id # NoId /\ account.dataOf # NoId
          => account.dataOf = profile.id /\ data = fetchAllUserData(profile.id))
  /\ LoadedOncePerUserId

\* C29: when every dataActions call made has returned, each in-memory
\* collection holds exactly the rows of the backend table, also after calls
\* whose backend request failed.
C29_DataMirrorsBackend ==
  dataOps.running = EmptyBag => \A t \in Tables : Range(data[t]) = db[t]

\* what does hold: a create refused by the backend leaves data as it was
FailedCreateKeepsData ==
  [][(db'.refused > db.refused /\ \E op \in BagToSet(dataOps.running) :
         op.kind = "create" /\ dataOps' = Returned(op))
       => data' = data]_vars

\* the entries of the blocks other than b are the same in both selection maps
OthersKept(before, after, b) ==
  /\ DOMAIN after = DOMAIN before \cup {b}
  /\ \A o \in DOMAIN before \ {b} : after[o] = before[o]

\* C30: handleBlockChange changes only the addressed field of the addressed
\* block: choosing a gradient keeps the block's commentIds and every other
\* block's entry, changing the comments keeps the block's gradientId and every
\* other block's entry, and a block that has a gradient keeps a non-null
\* gradientId until the selection is reset.
C30_OnlyAddressedField ==
  /\ [][\A b \in BlockIds : \A g \in {x.id : x \in Range(data.gradients)} :
          ChooseGradient(b, g)
          => /\ evaluations'[b].gradientId = g
             /\ evaluations'[b].commentIds = currentEval(b).commentIds
             /\ OthersKept(evaluations, evaluations', b)]_vars
  /\ [][\A b \in BlockIds : \A c \in {x.id : x \in Range(data.comments)} :
          ToggleComment(b, c)
          => /\ evaluations'[b].gradientId = currentEval(b).gradientId
             /\ OthersKept(evaluations, evaluations', b)]_vars
  /\ [][\A b \in DOMAIN evaluations :
          evaluations[b].gradientId # Null
          => \/ evaluations' = << >>
             \/ b \in DOMAIN evaluations' /\ evaluations'[b].gradientId # Null]_vars

\* a comment was checked for a block that has a gradient, while another block
\* has an entry too
C30_Witness ==
  /\ lastOp.op = "check"
  /\ lastOp.before.gradientId # Null
  /\ lastOp.block \in DOMAIN evaluations
  /\ evaluations[lastOp.block].gradientId = lastOp.before.gradientId
  /\ Len(evaluations[lastOp.block].commentIds) = Len(lastOp.before.commentIds) + 1
  /\ \E o \in DOMAIN evaluations : o # lastOp.block /\ evaluations[o].commentIds # << >>

====
